---- MODULE Spec2Model ----
(***************************************************************************)
(* claude-interview-mode: the in-memory session engine of the MCP server   *)
(* (src/src/index.ts) and the ingestion handler of the edge function       *)
(* (src/unnamed/part_002) that aggregates finished sessions into the       *)
(* shared store (src/supabase/schema-public.sql).                          *)
(*                                                                         *)
(* Strings are sequences of one-character strings, so that normalizeKey    *)
(* is computed and not assumed.  Numbers held in numeric(p,s) columns are  *)
(* integers scaled by 10^s: decision_rate in 1/10000, avg_position in      *)
(* 1/100.  Time moves when a session starts: the timestamp of an entry or  *)
(* a decision is the start time of the latest session started before it.   *)
(* Timestamps of coverage events are not modelled: no code reads them.     *)
(* A request body is a JSON value that carries its type, so that validate  *)
(* tests types as well as lengths and ranges; JSON numbers are integers.   *)
(* An exception the handler does not catch is the response 500.            *)
(***************************************************************************)
EXTENDS Integers, Sequences, FiniteSets, Bags, TLC

\* ------------------------------------------------------------------ bounds
MaxStarts == 2      \* start_interview calls of concurrent callers
MaxCalls == 2       \* their record and end_interview calls that resolve a session
MaxPosts == 2       \* payloads posted by other clients of the edge function
MaxSessions == 1    \* sessions of a caller who awaits each answer
MaxTurns == 3       \* that caller's record and end_interview calls
MaxBodies == 1      \* bodies posted to the edge function by clients of any kind
MaxQueued == 2      \* payloads posted to the edge function one after the other
MaxRateCovered == 3 \* times_covered of the score row bayesianDecisionRate starts from

\* ------------------------------------------------------- program constants
MaxCategoryLen == 200
MaxNameLen == 200
MaxListLen == 100
MaxCount == 500
MaxDuration == 86400
MaxKnown == 500
MinDuration == 10
MaxDecisionsPerMinute == 30

\* ------------------------------------------------------------ small helpers
Range(s) == { s[i] : i \in 1..Len(s) }

\* x / y rounded to the nearest integer, halves away from zero (x, y >= 0, y > 0)
RoundDiv(x, y) == (2 * x + y) \div (2 * y)

NoValue == "none"

\* ------------------------------------------------------------ normalization
IsSpace(c) == c = " "

toLowerCase(c) ==
    CASE c = "A" -> "a" [] c = "B" -> "b" [] c = "C" -> "c" [] c = "P" -> "p" [] OTHER -> c

RECURSIVE trimStart(_)
trimStart(s) == IF s # <<>> /\ IsSpace(Head(s)) THEN trimStart(Tail(s)) ELSE s

RECURSIVE trimEnd(_)
trimEnd(s) ==
    IF s # <<>> /\ IsSpace(s[Len(s)]) THEN trimEnd(SubSeq(s, 1, Len(s) - 1)) ELSE s

trim(s) == trimEnd(trimStart(s))

\* s.replace(/\s+/g, "-"): every maximal run of whitespace becomes one "-"
NotSpace(c) == ~ IsSpace(c)
replaceSpaceRuns(s) ==
    LET first == [i \in 1..Len(s) |->
                    IF NotSpace(s[i]) THEN s[i]
                    ELSE IF i = 1 \/ NotSpace(s[i - 1]) THEN "-"
                    ELSE " "]
    IN  SelectSeq(first, NotSpace)

normalizeKey(s) ==
    LET t == trim(s)
    IN  replaceSpaceRuns([i \in 1..Len(t) |-> toLowerCase(t[i])])

\* names.map(normalizeKey)
normalizeKeys(names) == [i \in 1..Len(names) |-> normalizeKey(names[i])]

\* ------------------------------------------------------------- scoring math
\* A rational is a record [num, den] with den > 0.
PriorAlphaTenths == 6
PriorBeta == 2

\* a slip: the prior is left out of the numerator
bayesianDecisionRate_NoPriorAlpha(decisions, covered) ==
    [num |-> 10 * decisions, den |-> 10 * (covered + PriorBeta)]

bayesianDecisionRate(decisions, covered) ==
    [num |-> 10 * decisions + PriorAlphaTenths, den |-> 10 * (covered + PriorBeta)]

\* numeric(5,4): the value rounded to 4 decimal places, in units of 1/10000
Numeric4(q) == RoundDiv(10000 * q.num, q.den)

\* numeric(5,2) of a whole number, in units of 1/100
Numeric2OfInt(n) == 100 * n

\* compositeScore of a stored decision rate (1/10000) with usageCount and maxUsage
compositeScore(rate4, usageCount, maxUsage) ==
    IF maxUsage > 0
    THEN [num |-> 7 * rate4 * maxUsage + 30000 * usageCount, den |-> 100000 * maxUsage]
    ELSE [num |-> 7 * rate4, den |-> 100000]

ZeroScore == [num |-> 0, den |-> 1]

\* a < b; scores of one start_interview share their denominator
ScoreLess(a, b) ==
    IF a.den = b.den THEN a.num < b.num
    ELSE IF a.num = 0 \/ b.num = 0 THEN a.num < b.num
    ELSE a.num * b.den < b.num * a.den

\* ------------------------------------------------------------------- state
VARIABLES
    checkpoints,          \* table checkpoints: <<category, name>> -> [usage_count, decision_count]
    checkpoint_scores,    \* table checkpoint_scores: <<category, checkpoint_name>> -> row
    interview_metadata,   \* table interview_metadata: the bag of its rows
    interview_patterns,   \* table interview_patterns: the bag of its rows
    requests,             \* invocations of the edge function handler, in arrival order
    sessions,             \* the Map sessions: id -> InterviewSession
    order,                \* the insertion order of the Map's keys
    starts,               \* start_interview calls awaiting their two loads
    clock,                \* Date.now() of the server process
    calls,                \* how many record and end_interview calls resolved a session
    lastError             \* the last result a tool returned with isError

vars == <<checkpoints, checkpoint_scores, interview_metadata, interview_patterns,
          requests, sessions, order, starts, clock, calls, lastError>>

storeVars == <<checkpoints, checkpoint_scores, interview_metadata, interview_patterns>>
sessionVars == <<sessions, order, starts, clock, calls, lastError>>

\* -------------------------------------------------------------- the tables
Key(category, name) == <<category, name>>

\* the rows of one category, by name
RowsOf(table, category) ==
    [n \in { k[2] : k \in { k \in DOMAIN table : k[1] = category } } |->
        table[Key(category, n)]]

\* one INSERT statement of several rows: a row whose unique key exists already, or
\* occurs twice in the statement, fails the whole statement
InsertConflict(table, keys) ==
    \/ \E i \in 1..Len(keys) : keys[i] \in DOMAIN table
    \/ \E i, j \in 1..Len(keys) : i # j /\ keys[i] = keys[j]

InsertRows(table, keys, rows) ==
    [k \in DOMAIN table \cup Range(keys) |->
        IF k \in DOMAIN table THEN table[k]
        ELSE rows[CHOOSE i \in 1..Len(keys) : keys[i] = k]]

\* UPDATE ... WHERE id = u.id: no row has the id -1 the handler gives a new name
NoId == <<"-1">>

\* a slip: the update without its .eq("id", u.id) filter
UpdateRow_AllRows(table, id, row) == [k \in DOMAIN table |-> row]

UpdateRow(table, id, row) ==
    IF id \in DOMAIN table THEN [table EXCEPT ![id] = row] ELSE table

\* ------------------------------------------------ request bodies, as req.json()
\* A JSON value carries its type: t is what typeof and Array.isArray tell apart,
\* v the value (characters, integer, boolean, elements, or fields).
JString(s) == [t |-> "string", v |-> s]
JNumber(n) == [t |-> "number", v |-> n]
JBoolean(b) == [t |-> "boolean", v |-> b]
JArray(a) == [t |-> "array", v |-> a]
JObject(o) == [t |-> "object", v |-> o]
JNull == [t |-> "null", v |-> 0]
Undefined == [t |-> "undefined", v |-> 0]

\* b.f: undefined on anything but an object holding the field
Field(b, f) == IF b.t = "object" /\ f \in DOMAIN b.v THEN b.v[f] ELSE Undefined

JStrings(names) == JArray([i \in 1..Len(names) |-> JString(names[i])])
JEvents(events) ==
    JArray([i \in 1..Len(events) |->
        JObject([checkpoint_name |-> JString(events[i].checkpoint_name),
                 led_to_decision |-> JBoolean(events[i].led_to_decision)])])

\* JSON.stringify(payload) as the handler's req.json() reads it back
stringify(payload) ==
    JObject([category |-> JString(payload.category),
             covered_checkpoints |-> JStrings(payload.covered_checkpoints),
             checkpoints_total |-> JNumber(payload.checkpoints_total),
             total_qas |-> JNumber(payload.total_qas),
             total_decisions |-> JNumber(payload.total_decisions),
             duration_seconds |-> JNumber(payload.duration_seconds),
             coverage_order |-> JEvents(payload.coverage_order),
             decision_topics |-> JStrings(payload.decision_topics),
             known_checkpoint_names |-> JStrings(payload.known_checkpoint_names)])

\* ------------------------------------------------------ validate (400 gate)
\* typeof x !== "string" || x.length > max
BadString(x, max) == x.t # "string" \/ Len(x.v) > max
\* !Array.isArray(x) || x.length > max
BadArray(x, max) == x.t # "array" \/ Len(x.v) > max
\* typeof x !== "number" || x < 0 || x > max
BadNumber(x, max) == x.t # "number" \/ x.v < 0 \/ x.v > max

\* the loop over coverage_order from its i-th entry: reading a property of null
\* or undefined throws
RECURSIVE validateEvents(_, _)
validateEvents(events, i) ==
    IF i > Len(events) THEN "ok"
    ELSE LET e == events[i]
         IN  IF e.t \in {"null", "undefined"} THEN "TypeError"
             ELSE IF BadString(Field(e, "checkpoint_name"), MaxNameLen)
                 THEN "Invalid coverage event"
             ELSE IF Field(e, "led_to_decision").t # "boolean"
                 THEN "Invalid coverage event"
             ELSE validateEvents(events, i + 1)

validate(body) ==
    IF body.t \notin {"object", "array"} THEN "Invalid body"
    ELSE IF \/ Field(body, "category").t # "string"
            \/ Len(Field(body, "category").v) < 1
            \/ Len(Field(body, "category").v) > MaxCategoryLen
        THEN "Invalid category"
    ELSE IF BadArray(Field(body, "covered_checkpoints"), MaxListLen)
        THEN "Invalid covered_checkpoints"
    ELSE IF BadNumber(Field(body, "checkpoints_total"), MaxCount)
        THEN "Invalid checkpoints_total"
    ELSE IF BadNumber(Field(body, "total_qas"), MaxCount) THEN "Invalid total_qas"
    ELSE IF BadNumber(Field(body, "total_decisions"), MaxCount)
        THEN "Invalid total_decisions"
    ELSE IF BadNumber(Field(body, "duration_seconds"), MaxDuration)
        THEN "Invalid duration_seconds"
    ELSE IF BadArray(Field(body, "coverage_order"), MaxListLen)
        THEN "Invalid coverage_order"
    ELSE IF BadArray(Field(body, "decision_topics"), MaxListLen)
        THEN "Invalid decision_topics"
    ELSE IF BadArray(Field(body, "known_checkpoint_names"), MaxKnown)
        THEN "Invalid known_checkpoint_names"
    ELSE IF \E i \in 1..Len(body.v.covered_checkpoints.v) :
                BadString(body.v.covered_checkpoints.v[i], MaxNameLen)
        THEN "Invalid checkpoint name"
    ELSE IF validateEvents(body.v.coverage_order.v, 1) # "ok"
        THEN validateEvents(body.v.coverage_order.v, 1)
    ELSE IF \E i \in 1..Len(body.v.decision_topics.v) :
                BadString(body.v.decision_topics.v[i], MaxNameLen)
        THEN "Invalid decision topic"
    ELSE "ok"

\* b as RecordPayload: the fields as the rest of the handler reads them
valuesOf(array) == [i \in 1..Len(array.v) |-> array.v[i].v]
eventsOf(array) ==
    [i \in 1..Len(array.v) |->
        [checkpoint_name |-> array.v[i].v.checkpoint_name.v,
         led_to_decision |-> array.v[i].v.led_to_decision.v]]

asRecordPayload(b) ==
    [category |-> b.v.category.v,
     covered_checkpoints |-> valuesOf(b.v.covered_checkpoints),
     checkpoints_total |-> b.v.checkpoints_total.v,
     total_qas |-> b.v.total_qas.v,
     total_decisions |-> b.v.total_decisions.v,
     duration_seconds |-> b.v.duration_seconds.v,
     coverage_order |-> eventsOf(b.v.coverage_order),
     decision_topics |-> valuesOf(b.v.decision_topics),
     known_checkpoint_names |-> valuesOf(b.v.known_checkpoint_names)]

\* normalizePayload calls s.trim() on every known name, which throws unless the
\* name is a string: validate has not looked at these entries
normalizeThrows(b) ==
    \E i \in 1..Len(b.v.known_checkpoint_names.v) :
        b.v.known_checkpoint_names.v[i].t # "string"

normalizeEvent(e) ==
    [checkpoint_name |-> normalizeKey(e.checkpoint_name), led_to_decision |-> e.led_to_decision]

normalizeEvents(events) == [i \in 1..Len(events) |-> normalizeEvent(events[i])]

normalizePayload(payload) ==
    [payload EXCEPT
        !.category = normalizeKey(payload.category),
        !.covered_checkpoints = normalizeKeys(payload.covered_checkpoints),
        !.coverage_order = normalizeEvents(payload.coverage_order),
        !.decision_topics = normalizeKeys(payload.decision_topics),
        !.known_checkpoint_names = normalizeKeys(payload.known_checkpoint_names)]

\* --------------------------------------------------- isSpamOrEmpty (422 gate)
\* a slip: a session of exactly the minimal duration counts as too short
isSpamOrEmpty_ShortAtTen(payload) ==
    IF payload.total_qas = 0 /\ payload.total_decisions = 0
        THEN "Empty interview: no QAs or decisions recorded"
    ELSE IF payload.duration_seconds <= MinDuration /\ payload.total_qas > 0
        THEN "Session too short for recorded content"
    ELSE IF /\ payload.total_decisions > 0
            /\ payload.duration_seconds > 0
            /\ payload.total_decisions * 60 > MaxDecisionsPerMinute * payload.duration_seconds
        THEN "Implausible decision rate"
    ELSE IF Len(payload.covered_checkpoints) >
                payload.checkpoints_total + payload.total_decisions
        THEN "Covered checkpoints exceed available checkpoints"
    ELSE NoValue

isSpamOrEmpty(payload) ==
    IF payload.total_qas = 0 /\ payload.total_decisions = 0
        THEN "Empty interview: no QAs or decisions recorded"
    ELSE IF payload.duration_seconds < MinDuration /\ payload.total_qas > 0
        THEN "Session too short for recorded content"
    ELSE IF /\ payload.total_decisions > 0
            /\ payload.duration_seconds > 0
            /\ payload.total_decisions * 60 > MaxDecisionsPerMinute * payload.duration_seconds
        THEN "Implausible decision rate"
    ELSE IF Len(payload.covered_checkpoints) >
                payload.checkpoints_total + payload.total_decisions
        THEN "Covered checkpoints exceed available checkpoints"
    ELSE NoValue

\* the status the handler answers before any write: 400, 422, or 0 to go on
GateStatus(body) ==
    IF validate(body) = "TypeError" THEN 500
    ELSE IF validate(body) # "ok" THEN 400
    ELSE IF normalizeThrows(body) THEN 500
    ELSE IF isSpamOrEmpty(normalizePayload(asRecordPayload(body))) # NoValue THEN 422
    ELSE 0

\* the error of the response body: the string validate or isSpamOrEmpty returned
GateError(body) ==
    IF GateStatus(body) = 400 THEN validate(body)
    ELSE IF GateStatus(body) = 422
        THEN isSpamOrEmpty(normalizePayload(asRecordPayload(body)))
    ELSE NoValue

\* ------------------------------------------- the handler's plans (steps 2-3, 5)
decisionCpSet(coverage_order) ==
    { coverage_order[i].checkpoint_name :
        i \in { j \in 1..Len(coverage_order) : coverage_order[j].led_to_decision } }

\* the loop over covered_checkpoints: one update per name found in cpMap, one insert
\* per name that is not
RECURSIVE CoveredPlan(_, _, _, _, _)
CoveredPlan(covered, cpMap, dset, category, plan) ==
    IF covered = <<>> THEN plan
    ELSE LET cp == Head(covered)
             led == IF cp \in dset THEN 1 ELSE 0
         IN  CoveredPlan(Tail(covered), cpMap, dset, category,
                IF cp \in DOMAIN cpMap
                THEN [plan EXCEPT !.updates = Append(@,
                        [id |-> Key(category, cp),
                         usage_count |-> cpMap[cp].usage_count + 1,
                         decision_count |-> cpMap[cp].decision_count + led])]
                ELSE [plan EXCEPT !.inserts = Append(@,
                        [category |-> category, name |-> cp,
                         usage_count |-> 1, decision_count |-> led])])

\* a slip: the discovered row starts with no decision counted
RECURSIVE DiscoverPlan_NoDecisionCounted(_, _, _, _, _)
DiscoverPlan_NoDecisionCounted(topics, knownSet, cpMap, category, inserts) ==
    IF topics = <<>> THEN inserts
    ELSE LET topic == Head(topics)
         IN  DiscoverPlan_NoDecisionCounted(Tail(topics), knownSet, cpMap, category,
                IF /\ topic \notin knownSet
                   /\ topic \notin DOMAIN cpMap
                   /\ ~ \E i \in 1..Len(inserts) : inserts[i].name = topic
                THEN Append(inserts,
                        [category |-> category, name |-> topic,
                         usage_count |-> 1, decision_count |-> 0])
                ELSE inserts)

\* the loop over decision_topics: a topic neither known, nor in cpMap, nor already
\* among the inserts becomes a new catalog row
RECURSIVE DiscoverPlan(_, _, _, _, _)
DiscoverPlan(topics, knownSet, cpMap, category, inserts) ==
    IF topics = <<>> THEN inserts
    ELSE LET topic == Head(topics)
         IN  DiscoverPlan(Tail(topics), knownSet, cpMap, category,
                IF /\ topic \notin knownSet
                   /\ topic \notin DOMAIN cpMap
                   /\ ~ \E i \in 1..Len(inserts) : inserts[i].name = topic
                THEN Append(inserts,
                        [category |-> category, name |-> topic,
                         usage_count |-> 1, decision_count |-> 1])
                ELSE inserts)

CheckpointPlan(payload, cpMap) ==
    LET covered == CoveredPlan(payload.covered_checkpoints, cpMap,
                               decisionCpSet(payload.coverage_order), payload.category,
                               [inserts |-> <<>>, updates |-> <<>>])
    IN  [inserts |-> DiscoverPlan(payload.decision_topics,
                                  Range(payload.known_checkpoint_names), cpMap,
                                  payload.category, covered.inserts),
         updates |-> covered.updates]

\* a slip: the rate is computed before the counters are incremented
ScoreAfterEvent_StaleRate(existing, event, position) ==
    LET newCovered == existing.times_covered + 1
        newDecisions == existing.times_led_to_decision +
                            (IF event.led_to_decision THEN 1 ELSE 0)
        newSamples == existing.position_samples + 1
        newAvgPos == RoundDiv(existing.avg_position * existing.position_samples
                                + 100 * position, newSamples)
    IN  [id |-> existing.id,
         times_covered |-> newCovered,
         times_led_to_decision |-> newDecisions,
         decision_rate |-> Numeric4(bayesianDecisionRate(
                                existing.times_led_to_decision, existing.times_covered)),
         avg_position |-> newAvgPos,
         position_samples |-> newSamples]

\* ScoreAfterEvent, but the position sample is not counted
ScoreAfterEvent_SampleNotCounted(existing, event, position) ==
    [id |-> existing.id,
     times_covered |-> existing.times_covered + 1,
     times_led_to_decision |-> existing.times_led_to_decision +
                                    (IF event.led_to_decision THEN 1 ELSE 0),
     decision_rate |-> existing.decision_rate,
     avg_position |-> existing.avg_position,
     position_samples |-> existing.position_samples]

\* the values an event at 1-indexed rank `position` gives an existing score entry
ScoreAfterEvent(existing, event, position) ==
    LET newCovered == existing.times_covered + 1
        newDecisions == existing.times_led_to_decision +
                            (IF event.led_to_decision THEN 1 ELSE 0)
        newSamples == existing.position_samples + 1
        \* +newAvgPos.toFixed(2), in 1/100
        newAvgPos == RoundDiv(existing.avg_position * existing.position_samples
                                + 100 * position, newSamples)
    IN  [id |-> existing.id,
         times_covered |-> newCovered,
         times_led_to_decision |-> newDecisions,
         decision_rate |-> Numeric4(bayesianDecisionRate(newDecisions, newCovered)),
         avg_position |-> newAvgPos,
         position_samples |-> newSamples]

\* the values of a score row inserted for an event at rank `position`
ScoreOfFirstEvent(event, position) ==
    LET led == IF event.led_to_decision THEN 1 ELSE 0
    IN  [id |-> NoId,
         times_covered |-> 1,
         times_led_to_decision |-> led,
         decision_rate |-> Numeric4(bayesianDecisionRate(led, 1)),
         avg_position |-> Numeric2OfInt(position),
         position_samples |-> 1]

\* the loop over coverage_order, which keeps scoreMap up to date as it goes
RECURSIVE ScorePlan(_, _, _, _, _)
ScorePlan(coverage_order, i, scoreMap, category, plan) ==
    IF i > Len(coverage_order) THEN plan
    ELSE LET event == coverage_order[i]
             name == event.checkpoint_name
         IN  IF name \in DOMAIN scoreMap
             THEN LET u == ScoreAfterEvent(scoreMap[name], event, i)
                  IN  ScorePlan(coverage_order, i + 1,
                        [scoreMap EXCEPT ![name] = u], category,
                        [plan EXCEPT !.updates = Append(@, u)])
             ELSE LET r == ScoreOfFirstEvent(event, i)
                  IN  ScorePlan(coverage_order, i + 1,
                        [n \in DOMAIN scoreMap \cup {name} |->
                            IF n = name THEN r ELSE scoreMap[n]], category,
                        [plan EXCEPT !.inserts = Append(@,
                            [r EXCEPT !.id = Key(category, name)])])

\* a score row as the table holds it
ScoreRow(u) ==
    [times_covered |-> u.times_covered,
     times_led_to_decision |-> u.times_led_to_decision,
     decision_rate |-> u.decision_rate,
     avg_position |-> u.avg_position,
     position_samples |-> u.position_samples]

\* scoreMap as the handler reads it: each row with its id
ScoreMapOf(table, category) ==
    LET rows == RowsOf(table, category)
    IN  [n \in DOMAIN rows |->
            [id |-> Key(category, n),
             times_covered |-> rows[n].times_covered,
             times_led_to_decision |-> rows[n].times_led_to_decision,
             decision_rate |-> rows[n].decision_rate,
             avg_position |-> rows[n].avg_position,
             position_samples |-> rows[n].position_samples]]

\* --------------------------------------------------- the edge function handler
\* One request is one invocation of the handler.  Its pc names the store call it
\* awaits next; the store calls are its only suspension points.  The fields
\* retro and scoresBefore are history: the names whose event a qa record created
\* and a decision record later credited, and the score rows of the category when
\* the payload was posted.
InFlight(r) == r.pc # "done"

SetBag(row) == SetToBag({row})

\* lines 132-172: the body is validated, normalized and screened before any write
Receive(body, retro) ==
    LET gate == GateStatus(body)
        payload == IF gate \in {400, 500} THEN << >>
                   ELSE normalizePayload(asRecordPayload(body))
    IN  [pc |-> IF gate = 0 THEN "metadata" ELSE "done",
         status |-> gate,
         body |-> body,
         error |-> GateError(body),
         payload |-> payload,
         errors |-> {},
         cpInserts |-> <<>>, cpUpdates |-> <<>>,
         scoreInserts |-> <<>>, scoreUpdates |-> <<>>,
         retro |-> retro,
         missed |-> 0,
         scoresBefore |-> IF gate = 0
                          THEN RowsOf(checkpoint_scores, payload.category)
                          ELSE << >>]

\* the answer: 207 when any write failed, else 200.  (missed counts the rows the
\* request was to write and did not: those of a failed insert, and an update
\* that matched no row)
Respond(r) ==
    [r EXCEPT !.pc = "done",
              !.status = IF r.errors # {} THEN 207 ELSE 200,
              !.cpInserts = <<>>, !.cpUpdates = <<>>,
              !.scoreInserts = <<>>, !.scoreUpdates = <<>>]

\* 1. insert interview_metadata
InsertMetadata(i) ==
    /\ requests[i].pc = "metadata"
    /\ LET payload == requests[i].payload
       IN  interview_metadata' = interview_metadata (+) SetBag(
                [category |-> payload.category,
                 checkpoints_covered |-> payload.covered_checkpoints,
                 checkpoints_total |-> payload.checkpoints_total,
                 total_qas |-> payload.total_qas,
                 total_decisions |-> payload.total_decisions,
                 duration_seconds |-> payload.duration_seconds])
    /\ requests' = [requests EXCEPT ![i].pc = "loadCheckpoints"]
    /\ UNCHANGED <<checkpoints, checkpoint_scores, interview_patterns, sessionVars>>

\* 2-3. select the category's checkpoints and plan the inserts and updates
LoadExistingCheckpoints(i) ==
    /\ requests[i].pc = "loadCheckpoints"
    /\ LET payload == requests[i].payload
           plan == CheckpointPlan(payload, RowsOf(checkpoints, payload.category))
       IN  requests' = [requests EXCEPT
                ![i].pc = IF plan.inserts # <<>> THEN "insertCheckpoints"
                          ELSE IF plan.updates # <<>> THEN "updateCheckpoints"
                          ELSE "insertPattern",
                ![i].cpInserts = plan.inserts,
                ![i].cpUpdates = plan.updates]
    /\ UNCHANGED <<storeVars, sessionVars>>

\* the batch insert of new checkpoints (made only when there is one)
InsertCheckpoints(i) ==
    /\ requests[i].pc = "insertCheckpoints"
    /\ LET rows == requests[i].cpInserts
           keys == [j \in 1..Len(rows) |-> Key(rows[j].category, rows[j].name)]
           vals == [j \in 1..Len(rows) |->
                        [usage_count |-> rows[j].usage_count,
                         decision_count |-> rows[j].decision_count]]
           failed == InsertConflict(checkpoints, keys)
       IN  /\ checkpoints' = IF failed THEN checkpoints
                             ELSE InsertRows(checkpoints, keys, vals)
           /\ requests' = [requests EXCEPT
                ![i].pc = IF requests[i].cpUpdates = <<>> THEN "insertPattern"
                          ELSE "updateCheckpoints",
                ![i].cpInserts = <<>>,
                ![i].errors = IF failed THEN @ \cup {"checkpoints insert"} ELSE @,
                ![i].missed = IF failed THEN @ + Len(rows) ELSE @]
    /\ UNCHANGED <<checkpoint_scores, interview_metadata, interview_patterns, sessionVars>>

\* Promise.all over cpUpdates: the updates are in flight together and the store
\* applies them one at a time, in any order
UpdateCheckpoint(i, j) ==
    /\ requests[i].pc = "updateCheckpoints"
    /\ j \in 1..Len(requests[i].cpUpdates)
    /\ LET u == requests[i].cpUpdates[j]
           rest == [k \in 1..(Len(requests[i].cpUpdates) - 1) |->
                        requests[i].cpUpdates[IF k < j THEN k ELSE k + 1]]
       IN  /\ checkpoints' = UpdateRow(checkpoints, u.id,
                                [usage_count |-> u.usage_count,
                                 decision_count |-> u.decision_count])
           /\ requests' = [requests EXCEPT
                ![i].cpUpdates = rest,
                ![i].pc = IF rest = <<>> THEN "insertPattern" ELSE @,
                ![i].missed = IF u.id \in DOMAIN checkpoints THEN @ ELSE @ + 1]
    /\ UNCHANGED <<checkpoint_scores, interview_metadata, interview_patterns, sessionVars>>

\* 4. insert interview_patterns
\* a slip: decision_checkpoints without its filter
InsertPattern_Unfiltered(i) ==
    /\ requests[i].pc = "insertPattern"
    /\ LET payload == requests[i].payload
           namesOf(events) == [j \in 1..Len(events) |-> events[j].checkpoint_name]
       IN  interview_patterns' = interview_patterns (+) SetBag(
                [category |-> payload.category,
                 coverage_sequence |-> namesOf(payload.coverage_order),
                 decision_checkpoints |-> namesOf(payload.coverage_order),
                 total_qas |-> payload.total_qas,
                 total_decisions |-> payload.total_decisions,
                 total_checkpoints_available |-> payload.checkpoints_total])
    /\ requests' = [requests EXCEPT ![i].pc = "loadScores"]
    /\ UNCHANGED <<checkpoints, checkpoint_scores, interview_metadata, sessionVars>>

InsertPattern(i) ==
    /\ requests[i].pc = "insertPattern"
    /\ LET payload == requests[i].payload
           isLed(e) == e.led_to_decision
           namesOf(events) == [j \in 1..Len(events) |-> events[j].checkpoint_name]
       IN  interview_patterns' = interview_patterns (+) SetBag(
                [category |-> payload.category,
                 coverage_sequence |-> namesOf(payload.coverage_order),
                 decision_checkpoints |->
                    namesOf(SelectSeq(payload.coverage_order, isLed)),
                 total_qas |-> payload.total_qas,
                 total_decisions |-> payload.total_decisions,
                 total_checkpoints_available |-> payload.checkpoints_total])
    /\ requests' = [requests EXCEPT ![i].pc = "loadScores"]
    /\ UNCHANGED <<checkpoints, checkpoint_scores, interview_metadata, sessionVars>>

\* 5. select the category's scores and plan the inserts and updates
LoadExistingScores(i) ==
    /\ requests[i].pc = "loadScores"
    /\ LET payload == requests[i].payload
           plan == ScorePlan(payload.coverage_order, 1,
                             ScoreMapOf(checkpoint_scores, payload.category),
                             payload.category, [inserts |-> <<>>, updates |-> <<>>])
           next == [requests[i] EXCEPT
                        !.pc = IF plan.inserts # <<>> THEN "insertScores"
                               ELSE "updateScores",
                        !.scoreInserts = plan.inserts,
                        !.scoreUpdates = plan.updates]
       IN  requests' = [requests EXCEPT
                ![i] = IF plan.inserts = <<>> /\ plan.updates = <<>>
                       THEN Respond(next) ELSE next]
    /\ UNCHANGED <<storeVars, sessionVars>>

\* the batch insert of new scores (made only when there is one)
InsertScores(i) ==
    /\ requests[i].pc = "insertScores"
    /\ LET rows == requests[i].scoreInserts
           keys == [j \in 1..Len(rows) |-> rows[j].id]
           vals == [j \in 1..Len(rows) |-> ScoreRow(rows[j])]
           failed == InsertConflict(checkpoint_scores, keys)
           done == requests[i].scoreUpdates = <<>>
           next == [requests[i] EXCEPT
                        !.pc = "updateScores",
                        !.scoreInserts = <<>>,
                        !.errors = IF failed THEN @ \cup {"checkpoint_scores insert"}
                                   ELSE @,
                        !.missed = IF failed THEN @ + Len(rows) ELSE @]
       IN  /\ checkpoint_scores' = IF failed THEN checkpoint_scores
                                   ELSE InsertRows(checkpoint_scores, keys, vals)
           /\ requests' = [requests EXCEPT ![i] = IF done THEN Respond(next) ELSE next]
    /\ UNCHANGED <<checkpoints, interview_metadata, interview_patterns, sessionVars>>

\* Promise.all over scoreUpdates, then the response
UpdateScore(i, j) ==
    /\ requests[i].pc = "updateScores"
    /\ j \in 1..Len(requests[i].scoreUpdates)
    /\ LET u == requests[i].scoreUpdates[j]
           rest == [k \in 1..(Len(requests[i].scoreUpdates) - 1) |->
                        requests[i].scoreUpdates[IF k < j THEN k ELSE k + 1]]
           next == [requests[i] EXCEPT
                        !.scoreUpdates = rest,
                        !.missed = IF u.id \in DOMAIN checkpoint_scores THEN @ ELSE @ + 1]
       IN  /\ checkpoint_scores' = UpdateRow(checkpoint_scores, u.id, ScoreRow(u))
           /\ requests' = [requests EXCEPT
                            ![i] = IF rest = <<>> THEN Respond(next) ELSE next]
    /\ UNCHANGED <<checkpoints, interview_metadata, interview_patterns, sessionVars>>

\* ------------------------------------------------------------ the session engine
\* session_id omitted (or the empty string, which is falsy)
Omitted == << >>

Covered(session) ==
    { session.checkpoints[i].name :
        i \in { j \in 1..Len(session.checkpoints) : session.checkpoints[j].covered } }

\* a slip: the id is not read, every call takes the fallback
findSession_IgnoresId(sessionId) ==
    LET active == { i \in 1..Len(order) : sessions[order[i]].status = "active" }
    IN  IF active = {} THEN Omitted
        ELSE order[CHOOSE i \in active :
               \A j \in active :
                   \/ sessions[order[j]].startedAt < sessions[order[i]].startedAt
                   \/ (sessions[order[j]].startedAt = sessions[order[i]].startedAt
                       /\ i <= j)]

\* a slip: the fallback does not test the status
findSession_AnyStatus(sessionId) ==
    IF sessionId # Omitted
    THEN IF sessionId \in DOMAIN sessions THEN sessionId ELSE Omitted
    ELSE LET any == 1..Len(order)
         IN  IF any = {} THEN Omitted
             ELSE order[CHOOSE i \in any :
                    \A j \in any :
                        \/ sessions[order[j]].startedAt < sessions[order[i]].startedAt
                        \/ (sessions[order[j]].startedAt = sessions[order[i]].startedAt
                            /\ i <= j)]

\* findSession: the session of that id whatever its status; without an id the
\* first active session, in the Map's order, that no other active one started after
findSession(sessionId) ==
    IF sessionId # Omitted
    THEN IF sessionId \in DOMAIN sessions THEN sessionId ELSE Omitted
    ELSE LET active == { i \in 1..Len(order) : sessions[order[i]].status = "active" }
         IN  IF active = {} THEN Omitted
             ELSE order[CHOOSE i \in active :
                    \A j \in active :
                        \/ sessions[order[j]].startedAt < sessions[order[i]].startedAt
                        \/ (sessions[order[j]].startedAt = sessions[order[i]].startedAt
                            /\ i <= j)]

\* generateId: Date.now() and four random characters.  The random part is either
\* one an id of this millisecond has already, or the least one none has.
generateId(t) ==
    LET used == { id[2] : id \in { k \in DOMAIN sessions : k[1] = t } }
    IN  { <<t, r>> : r \in used \cup {Cardinality(used) + 1} }

\* loadCheckpoints: the names of the category by descending usage_count; rows of
\* equal usage_count come in any order
loadCheckpoints(category) ==
    LET rows == RowsOf(checkpoints, category)
        n == Cardinality(DOMAIN rows)
    IN  { s \in [1..n -> DOMAIN rows] :
            /\ \A i, j \in 1..n : i # j => s[i] # s[j]
            /\ \A i, j \in 1..n :
                    i < j => rows[s[i]].usage_count >= rows[s[j]].usage_count }

\* loadCheckpointScores: decision_rate and avg_position of the category's rows
loadCheckpointScores(category) ==
    LET rows == RowsOf(checkpoint_scores, category)
    IN  [n \in DOMAIN rows |->
            [decisionRate |-> rows[n].decision_rate, avgPosition |-> rows[n].avg_position]]

\* Array.prototype.sort((a, b) => b.score - a.score): stable, descending
RECURSIVE InsertByScore(_, _)
InsertByScore(sorted, x) ==
    IF sorted = <<>> THEN <<x>>
    ELSE IF ScoreLess(Head(sorted).score, x.score) THEN <<x>> \o sorted
    ELSE <<Head(sorted)>> \o InsertByScore(Tail(sorted), x)

RECURSIVE SortByScore(_, _)
SortByScore(list, sorted) ==
    IF list = <<>> THEN sorted
    ELSE SortByScore(Tail(list), InsertByScore(sorted, Head(list)))

\* a slip: the checkpoints keep the order of the catalog load
sortedCheckpoints_LoadOrder(checkpointNames, scores) ==
    [i \in 1..Len(checkpointNames) |->
        [name |-> checkpointNames[i],
         covered |-> FALSE,
         score |-> IF checkpointNames[i] \in DOMAIN scores
                   THEN compositeScore(scores[checkpointNames[i]].decisionRate, 1,
                                       Len(checkpointNames))
                   ELSE ZeroScore]]

sortedCheckpoints(checkpointNames, scores) ==
    LET maxUsage == Len(checkpointNames)
        scored == [i \in 1..Len(checkpointNames) |->
                    [name |-> checkpointNames[i],
                     covered |-> FALSE,
                     score |-> IF checkpointNames[i] \in DOMAIN scores
                               THEN compositeScore(
                                        scores[checkpointNames[i]].decisionRate, 1, maxUsage)
                               ELSE ZeroScore]]
    IN  SortByScore(scored, <<>>)

\* [...scores.entries()]: the entries of the Map in the order it was filled, which
\* is the order the store returned the rows in (the select has no order)
scoreEntries(scores) ==
    LET n == Cardinality(DOMAIN scores)
    IN  { [i \in 1..n |-> [name |-> s[i],
                           decisionRate |-> scores[s[i]].decisionRate,
                           avgPosition |-> scores[s[i]].avgPosition]] :
            s \in { t \in [1..n -> DOMAIN scores] :
                        \A i, j \in 1..n : i # j => t[i] # t[j] } }

\* Array.prototype.sort((a, b) => a[1].avgPosition - b[1].avgPosition): stable,
\* ascending
RECURSIVE SortByPosition(_, _)
SortByPosition(list, sorted) ==
    IF list = <<>> THEN sorted
    ELSE LET x == Head(list)
             p == Cardinality({ i \in 1..Len(sorted) :
                                    sorted[i].avgPosition <= x.avgPosition })
         IN  SortByPosition(Tail(list),
                            SubSeq(sorted, 1, p) \o <<x>> \o SubSeq(sorted, p + 1, Len(sorted)))

\* a slip: a rate of exactly 0.2 is left out
computeRecommendedPath_Above(entries) ==
    LET Recommended(e) == e.decisionRate > 2000
        path == SortByPosition(SelectSeq(entries, Recommended), <<>>)
    IN  [i \in 1..Len(path) |-> path[i].name]

\* computeRecommendedPath: filter (decisionRate >= 0.2), sort, map to the names
computeRecommendedPath(entries) ==
    LET Recommended(e) == e.decisionRate >= 2000
        path == SortByPosition(SelectSeq(entries, Recommended), <<>>)
    IN  [i \in 1..Len(path) |-> path[i].name]

\* start_interview up to its await: the category key and the two loads fired
StartInterview(topic, category) ==
    /\ starts' = Append(starts,
            [pc |-> "loading",
             topic |-> topic,
             category |-> normalizeKey(IF category.given THEN category.value ELSE topic),
             namesLoaded |-> FALSE, checkpointNames |-> <<>>,
             scoresLoaded |-> FALSE, scores |-> << >>,
             recommended_path |-> <<>>])
    /\ UNCHANGED <<storeVars, requests, sessions, order, clock, calls, lastError>>

StartLoadCheckpoints(k) ==
    /\ starts[k].pc = "loading"
    /\ ~ starts[k].namesLoaded
    /\ \E names \in loadCheckpoints(starts[k].category) :
            starts' = [starts EXCEPT ![k].namesLoaded = TRUE,
                                     ![k].checkpointNames = names]
    /\ UNCHANGED <<storeVars, requests, sessions, order, clock, calls, lastError>>

StartLoadCheckpointScores(k) ==
    /\ starts[k].pc = "loading"
    /\ ~ starts[k].scoresLoaded
    /\ starts' = [starts EXCEPT ![k].scoresLoaded = TRUE,
                                ![k].scores = loadCheckpointScores(starts[k].category)]
    /\ UNCHANGED <<storeVars, requests, sessions, order, clock, calls, lastError>>

\* Date.now() at the next start: the same millisecond or a later one.  Only the
\* order of start times is read, so the first session starts at 0.
Ticks == IF DOMAIN sessions = {} THEN {clock} ELSE {clock, clock + 1}

\* the session start_interview builds from what it loaded
newSession(k, topic, category, checkpointNames, scores, t, id) ==
    [id |-> id,
     serial |-> k,
     topic |-> topic,
     category |-> category,
     startedAt |-> t,
     entries |-> <<>>,
     decisions |-> <<>>,
     checkpoints |-> sortedCheckpoints(checkpointNames, scores),
     coverageOrder |-> <<>>,
     status |-> "active",
     uploads |-> 0,
     next_recommended |-> [given |-> FALSE, value |-> <<>>]]

\* sessions.set(id, session): a key the Map holds keeps its place in the order
sessionsSet(id, session) ==
    /\ sessions' = [i \in DOMAIN sessions \cup {id} |->
                        IF i = id THEN session ELSE sessions[i]]
    /\ order' = IF id \in DOMAIN sessions THEN order ELSE Append(order, id)

StartDone(topic, category, recommended_path) ==
    [pc |-> "done", topic |-> topic, category |-> category,
     namesLoaded |-> TRUE, checkpointNames |-> <<>>,
     scoresLoaded |-> TRUE, scores |-> << >>,
     recommended_path |-> recommended_path]

\* start_interview after its await: the session is built and registered
CreateSession(k) ==
    /\ starts[k].pc = "loading"
    /\ starts[k].namesLoaded /\ starts[k].scoresLoaded
    /\ \E t \in Ticks : \E id \in generateId(t) :
        /\ clock' = t
        /\ sessionsSet(id, newSession(k, starts[k].topic, starts[k].category,
                                      starts[k].checkpointNames, starts[k].scores, t, id))
    /\ \E entries \in scoreEntries(starts[k].scores) :
            starts' = [starts EXCEPT
                        ![k] = StartDone(@.topic, @.category,
                                         computeRecommendedPath(entries))]
    /\ UNCHANGED <<storeVars, requests, calls, lastError>>

\* start_interview from call to return while no one writes to the store: the two
\* loads read the same rows whenever they run
StartSession(topic, category) ==
    LET cat == normalizeKey(IF category.given THEN category.value ELSE topic)
        k == Len(starts) + 1
    IN  /\ \E names \in loadCheckpoints(cat) : \E t \in Ticks : \E id \in generateId(t) :
            /\ clock' = t
            /\ sessionsSet(id, newSession(k, topic, cat, names,
                                          loadCheckpointScores(cat), t, id))
        /\ \E entries \in scoreEntries(loadCheckpointScores(cat)) :
                starts' = Append(starts,
                                 StartDone(topic, cat, computeRecommendedPath(entries)))
        /\ UNCHANGED <<storeVars, requests, calls, lastError>>

\* a slip: the covered flag is not tested, every mention appends an event
RECURSIVE markCovered_AlwaysPush(_, _, _, _)
markCovered_AlwaysPush(names, session, entryIndex, type) ==
    IF names = <<>> THEN session
    ELSE LET cpName == Head(names)
             found == { i \in 1..Len(session.checkpoints) :
                            session.checkpoints[i].name = cpName }
         IN  IF found = {} THEN markCovered_AlwaysPush(Tail(names), session, entryIndex, type)
             ELSE LET c == CHOOSE i \in found : \A j \in found : i <= j
                      pushed ==
                        [session EXCEPT
                            !.checkpoints[c].covered = TRUE,
                            !.coverageOrder = Append(@,
                                [checkpointName |-> cpName,
                                 coveredAtEntry |-> entryIndex,
                                 ledToDecision |-> type = "decision",
                                 firstBy |-> type])]
                      events == { i \in 1..Len(pushed.coverageOrder) :
                                    pushed.coverageOrder[i].checkpointName = cpName }
                      credited ==
                        IF type = "decision" /\ events # {}
                        THEN [pushed EXCEPT
                                !.coverageOrder[CHOOSE i \in events :
                                    \A j \in events : i <= j].ledToDecision = TRUE]
                        ELSE pushed
                  IN  markCovered_AlwaysPush(Tail(names), credited, entryIndex, type)

\* a slip: the flag is assigned the record's type, so a qa record clears it
RECURSIVE markCovered_FlagFollowsType(_, _, _, _)
markCovered_FlagFollowsType(names, session, entryIndex, type) ==
    IF names = <<>> THEN session
    ELSE LET cpName == Head(names)
             found == { i \in 1..Len(session.checkpoints) :
                            session.checkpoints[i].name = cpName }
         IN  IF found = {}
             THEN markCovered_FlagFollowsType(Tail(names), session, entryIndex, type)
             ELSE LET c == CHOOSE i \in found : \A j \in found : i <= j
                      pushed ==
                        IF ~ session.checkpoints[c].covered
                        THEN [session EXCEPT
                                !.checkpoints[c].covered = TRUE,
                                !.coverageOrder = Append(@,
                                    [checkpointName |-> cpName,
                                     coveredAtEntry |-> entryIndex,
                                     ledToDecision |-> type = "decision",
                                     firstBy |-> type])]
                        ELSE session
                      events == { i \in 1..Len(pushed.coverageOrder) :
                                    pushed.coverageOrder[i].checkpointName = cpName }
                      credited ==
                        IF events # {}
                        THEN [pushed EXCEPT
                                !.coverageOrder[CHOOSE i \in events :
                                    \A j \in events : i <= j].ledToDecision =
                                        (type = "decision")]
                        ELSE pushed
                  IN  markCovered_FlagFollowsType(Tail(names), credited, entryIndex, type)

\* the loop of record over the normalized names: the first mention of an uncovered
\* checkpoint of the snapshot appends its event, and a decision credits the event
\* of every checkpoint it names
RECURSIVE markCovered(_, _, _, _)
markCovered(names, session, entryIndex, type) ==
    IF names = <<>> THEN session
    ELSE LET cpName == Head(names)
             found == { i \in 1..Len(session.checkpoints) :
                            session.checkpoints[i].name = cpName }
         IN  IF found = {} THEN markCovered(Tail(names), session, entryIndex, type)
             ELSE LET c == CHOOSE i \in found : \A j \in found : i <= j
                      pushed ==
                        IF ~ session.checkpoints[c].covered
                        THEN [session EXCEPT
                                !.checkpoints[c].covered = TRUE,
                                !.coverageOrder = Append(@,
                                    [checkpointName |-> cpName,
                                     coveredAtEntry |-> entryIndex,
                                     ledToDecision |-> type = "decision",
                                     firstBy |-> type])]
                        ELSE session
                      events == { i \in 1..Len(pushed.coverageOrder) :
                                    pushed.coverageOrder[i].checkpointName = cpName }
                      credited ==
                        IF type = "decision" /\ events # {}
                        THEN [pushed EXCEPT
                                !.coverageOrder[CHOOSE i \in events :
                                    \A j \in events : i <= j].ledToDecision = TRUE]
                        ELSE pushed
                  IN  markCovered(Tail(names), credited, entryIndex, type)

\* getNextRecommended: the first of the uncovered checkpoints sorted by descending
\* score, or null
isUncovered(cp) == ~ cp.covered
getNextRecommended(session) ==
    LET uncov == SortByScore(SelectSeq(session.checkpoints, isUncovered), <<>>)
    IN  IF Len(uncov) > 0 THEN [null |-> FALSE, name |-> uncov[1].name]
        ELSE [null |-> TRUE, name |-> <<>>]

\* ...(nextRec && { next_recommended: nextRec }): the field of the response, there
\* when nextRec is truthy
nextRecommendedField(session) ==
    LET nextRec == getNextRecommended(session)
    IN  [given |-> ~ nextRec.null /\ nextRec.name # <<>>, value |-> nextRec.name]

\* a slip: a name that is not in the snapshot gets a coverage event all the same
recorded_UnknownLogged(session, type, complete, topic, covered_checkpoints) ==
    LET names == normalizeKeys(covered_checkpoints)
        tracked == markCovered(names, session,
                               Len(session.entries) + Len(session.decisions), type)
        known == { session.checkpoints[i].name : i \in 1..Len(session.checkpoints) }
        IsUnknown(n) == n \notin known
        unknown == SelectSeq(names, IsUnknown)
    IN  [tracked EXCEPT
            !.entries = Append(@, [question |-> "q", answer |-> "a", timestamp |-> clock]),
            !.coverageOrder = @ \o [i \in 1..Len(unknown) |->
                                        [checkpointName |-> unknown[i],
                                         coveredAtEntry |-> 0,
                                         ledToDecision |-> type = "decision",
                                         firstBy |-> type]]]

\* a slip: a Q&A record marks its checkpoints covered and logs no event
recorded_QaNotLogged(session, type, complete, topic, covered_checkpoints) ==
    LET tracked == markCovered(normalizeKeys(covered_checkpoints), session,
                               Len(session.entries) + Len(session.decisions), type)
    IN  IF type = "qa"
        THEN [tracked EXCEPT
                !.entries = Append(@,
                    [question |-> "q", answer |-> "a", timestamp |-> clock]),
                !.coverageOrder = session.coverageOrder]
        ELSE [tracked EXCEPT
                !.decisions = Append(@,
                    [topic |-> normalizeKey(topic), decision |-> "d", timestamp |-> clock])]

\* the session after record(type, ...): coverage is tracked first, then the entry
\* or the decision is appended unless a required field is missing
recorded(session, type, complete, topic, covered_checkpoints) ==
    LET tracked == markCovered(normalizeKeys(covered_checkpoints), session,
                               Len(session.entries) + Len(session.decisions), type)
    IN  IF ~ complete THEN tracked
        ELSE IF type = "qa"
        THEN [tracked EXCEPT
                !.entries = Append(@,
                    [question |-> "q", answer |-> "a", timestamp |-> clock]),
                !.next_recommended = nextRecommendedField(tracked)]
        ELSE [tracked EXCEPT
                !.decisions = Append(@,
                    [topic |-> normalizeKey(topic), decision |-> "d", timestamp |-> clock]),
                !.next_recommended = nextRecommendedField(tracked)]

\* the isError result of a tool that resolved no session, sentence by sentence
NoSession(tool) ==
    [tool |-> tool,
     text |-> IF tool = "record"
              THEN <<"No active interview session.", "Use start_interview first.">>
              ELSE <<"No active interview session.">>]

\* the isError result of a record call that lacks a required field
MissingFields(type) ==
    [tool |-> "record",
     text |-> IF type = "qa"
              THEN <<"Both question and answer are required for qa type.">>
              ELSE <<"Both topic and decision are required for decision type.">>]

Record(session_id, type, complete, topic, covered_checkpoints) ==
    LET id == findSession(session_id)
    IN  /\ IF id = Omitted
           THEN /\ lastError' = NoSession("record")
                /\ UNCHANGED <<sessions, calls>>
           ELSE /\ calls' = calls + 1
                /\ sessions' = [sessions EXCEPT ![id] =
                        recorded(@, type, complete, topic, covered_checkpoints)]
                /\ lastError' = IF complete THEN lastError ELSE MissingFields(type)
        /\ UNCHANGED <<storeVars, requests, order, starts, clock>>

\* a slip: get_context files a metadata row for the session it shows
GetContext_FilesMetadata(session_id) ==
    LET id == findSession(session_id)
    IN  /\ lastError' = IF id = Omitted THEN NoSession("get_context") ELSE lastError
        /\ interview_metadata' =
                IF id = Omitted THEN interview_metadata
                ELSE interview_metadata (+) SetToBag({
                        [category |-> sessions[id].category,
                         checkpoints_covered |-> <<>>,
                         checkpoints_total |-> Len(sessions[id].checkpoints),
                         total_qas |-> Len(sessions[id].entries),
                         total_decisions |-> Len(sessions[id].decisions),
                         duration_seconds |-> 0]})
        /\ UNCHANGED <<checkpoints, checkpoint_scores, interview_patterns,
                       requests, sessions, order, starts, clock, calls>>

\* get_context only reads
GetContext(session_id) ==
    /\ lastError' = IF findSession(session_id) = Omitted
                    THEN NoSession("get_context") ELSE lastError
    /\ UNCHANGED <<storeVars, requests, sessions, order, starts, clock, calls>>

\* uploadViaEdgeFunction: the body posted for a session that lasted `seconds`
isCovered(cp) == cp.covered
namesOfCheckpoints(cps) == [i \in 1..Len(cps) |-> cps[i].name]
topicsOfDecisions(ds) == [i \in 1..Len(ds) |-> normalizeKey(ds[i].topic)]
eventOfCoverage(e) ==
    [checkpoint_name |-> e.checkpointName, led_to_decision |-> e.ledToDecision]
eventsOfCoverage(log) == [i \in 1..Len(log) |-> eventOfCoverage(log[i])]

payloadOf(session, seconds) ==
    [category |-> session.category,
     covered_checkpoints |-> namesOfCheckpoints(SelectSeq(session.checkpoints, isCovered)),
     checkpoints_total |-> Len(session.checkpoints),
     total_qas |-> Len(session.entries),
     total_decisions |-> Len(session.decisions),
     duration_seconds |-> seconds,
     coverage_order |-> eventsOfCoverage(session.coverageOrder),
     decision_topics |-> topicsOfDecisions(session.decisions),
     known_checkpoint_names |-> namesOfCheckpoints(session.checkpoints)]

\* the names a qa record covered first and a decision record credited later
RetroNames(session) ==
    { session.coverageOrder[i].checkpointName :
        i \in { j \in 1..Len(session.coverageOrder) :
                    /\ session.coverageOrder[j].firstBy = "qa"
                    /\ session.coverageOrder[j].ledToDecision } }

\* end_interview: the session is completed and its summary posted
EndInterview(session_id, seconds) ==
    LET id == findSession(session_id)
    IN  /\ IF id = Omitted
           THEN /\ lastError' = NoSession("end_interview")
                /\ UNCHANGED <<sessions, requests, calls>>
           ELSE /\ calls' = calls + 1
                /\ sessions' = [sessions EXCEPT ![id].status = "completed",
                                                ![id].uploads = @ + 1]
                /\ requests' = Append(requests,
                        Receive(stringify(payloadOf(sessions[id], seconds)),
                                RetroNames(sessions[id])))
                /\ UNCHANGED lastError
        /\ UNCHANGED <<storeVars, order, starts, clock>>

\* the POST that does not reach the handler: fetch throws on a network error, or
\* the platform answers a server error, here 503; uploadViaEdgeFunction logs it
Unreached(body) ==
    [pc |-> "done", status |-> 503, body |-> body, error |-> NoValue,
     payload |-> << >>, errors |-> {},
     cpInserts |-> <<>>, cpUpdates |-> <<>>, scoreInserts |-> <<>>, scoreUpdates |-> <<>>,
     retro |-> {}, missed |-> 0, scoresBefore |-> << >>]

\* end_interview while the edge function cannot be reached: the error is caught
\* and logged, and the tool returns its summary
EndInterviewOutage(session_id, seconds) ==
    LET id == findSession(session_id)
    IN  /\ id # Omitted
        /\ calls' = calls + 1
        /\ sessions' = [sessions EXCEPT ![id].status = "completed",
                                        ![id].uploads = @ + 1]
        /\ requests' = Append(requests,
                            Unreached(stringify(payloadOf(sessions[id], seconds))))
        /\ UNCHANGED <<storeVars, order, starts, clock, lastError>>

\* ----------------------------------------------- uploadDirectToSupabase
\* The path end_interview takes when the server is configured with a store of
\* its own.  Each store call is awaited before the next, and nothing else writes
\* that store while the caller awaits end_interview.  No error of a store call
\* stops the function.
\* the loop over the covered names: select the row, then update it or insert one
RECURSIVE DirectCheckpoints(_, _, _, _)
DirectCheckpoints(covered, dset, category, table) ==
    IF covered = <<>> THEN table
    ELSE LET k == Key(category, Head(covered))
             led == IF Head(covered) \in dset THEN 1 ELSE 0
         IN  DirectCheckpoints(Tail(covered), dset, category,
                IF k \in DOMAIN table
                THEN [table EXCEPT ![k] = [usage_count |-> @.usage_count + 1,
                                           decision_count |-> @.decision_count + led]]
                ELSE table @@ (k :> [usage_count |-> 1, decision_count |-> led]))

\* the loop over the decision topics: a topic outside the snapshot that has no row
\* gets one
RECURSIVE DirectTopics(_, _, _, _)
DirectTopics(decisionTopics, allKnown, category, table) ==
    IF decisionTopics = <<>> THEN table
    ELSE LET k == Key(category, Head(decisionTopics))
         IN  DirectTopics(Tail(decisionTopics), allKnown, category,
                IF Head(decisionTopics) \notin allKnown /\ k \notin DOMAIN table
                THEN table @@ (k :> [usage_count |-> 1, decision_count |-> 1])
                ELSE table)

\* the loop over the coverage-order log: select the score row of the event, then
\* update it or insert one
RECURSIVE DirectScores(_, _, _, _)
DirectScores(coverageOrder, i, category, table) ==
    IF i > Len(coverageOrder) THEN table
    ELSE LET event == eventOfCoverage(coverageOrder[i])
             name == event.checkpoint_name
             k == Key(category, name)
         IN  DirectScores(coverageOrder, i + 1, category,
                IF k \in DOMAIN table
                THEN [table EXCEPT ![k] =
                        ScoreRow(ScoreAfterEvent(ScoreMapOf(table, category)[name],
                                                 event, i))]
                ELSE table @@ (k :> ScoreRow(ScoreOfFirstEvent(event, i))))

\* the four tables after uploadDirectToSupabase(session), `seconds` after its start
uploadDirectToSupabase(session, seconds, tables) ==
    LET covered == namesOfCheckpoints(SelectSeq(session.checkpoints, isCovered))
        events == eventsOfCoverage(session.coverageOrder)
        isLed(e) == e.led_to_decision
        namesOf(list) == [j \in 1..Len(list) |-> list[j].checkpoint_name]
        upserted == DirectCheckpoints(covered, decisionCpSet(events), session.category,
                                      tables.checkpoints)
    IN  [interview_metadata |-> tables.interview_metadata (+) SetBag(
            [category |-> session.category,
             checkpoints_covered |-> covered,
             checkpoints_total |-> Len(session.checkpoints),
             total_qas |-> Len(session.entries),
             total_decisions |-> Len(session.decisions),
             duration_seconds |-> seconds]),
         checkpoints |->
            DirectTopics([j \in 1..Len(session.decisions) |-> session.decisions[j].topic],
                         Range(namesOfCheckpoints(session.checkpoints)),
                         session.category, upserted),
         interview_patterns |-> tables.interview_patterns (+) SetBag(
            [category |-> session.category,
             coverage_sequence |-> namesOf(events),
             decision_checkpoints |-> namesOf(SelectSeq(events, isLed)),
             total_qas |-> Len(session.entries),
             total_decisions |-> Len(session.decisions),
             total_checkpoints_available |-> Len(session.checkpoints)]),
         checkpoint_scores |->
            DirectScores(session.coverageOrder, 1, session.category,
                         tables.checkpoint_scores)]

\* the four tables as one value
Tables ==
    [checkpoints |-> checkpoints, checkpoint_scores |-> checkpoint_scores,
     interview_metadata |-> interview_metadata, interview_patterns |-> interview_patterns]

\* end_interview of a server whose store is its own
EndInterviewDirect(session_id, seconds) ==
    LET id == findSession(session_id)
        after == uploadDirectToSupabase(sessions[id], seconds, Tables)
    IN  /\ id # Omitted
        /\ calls' = calls + 1
        /\ sessions' = [sessions EXCEPT ![id].status = "completed",
                                        ![id].uploads = @ + 1]
        /\ checkpoints' = after.checkpoints
        /\ checkpoint_scores' = after.checkpoint_scores
        /\ interview_metadata' = after.interview_metadata
        /\ interview_patterns' = after.interview_patterns
        /\ UNCHANGED <<requests, order, starts, clock, lastError>>

\* a client of the edge function other than the server (scripts post payloads too)
PostPayload(body) ==
    /\ requests' = Append(requests, Receive(stringify(body), {}))
    /\ UNCHANGED <<storeVars, sessionVars>>

\* any client: the endpoint is public, and a body is whatever JSON was posted
PostJson(body) ==
    /\ requests' = Append(requests, Receive(body, {}))
    /\ UNCHANGED <<storeVars, sessionVars>>

\* ------------------------------------------------------------------- inputs
Category == <<"p">>
NameA == <<"a">>
NameB == <<"b">>

\* what callers pass: names as they type them
RawA == <<"A">>
RawA2 == <<" ", "a">>
RawB == <<"b">>
RawZ == <<"z">>
RawNew == <<"n", " ", "1">>
RawC == <<"C">>
RawC2 == <<" ", "c", " ">>
RawBlank == <<" ">>

TopicInputs == { <<"P", " ">> }
CategoryInputs ==
    { [given |-> FALSE, value |-> <<>>], [given |-> TRUE, value |-> <<" ", "p">>] }
UnknownId == <<0, 0>>
SessionIdInputs == DOMAIN sessions \cup {Omitted, UnknownId}

\* ---------------------------------------------------------------------- Init
\* The store after four earlier sessions of the category: the first knew no
\* checkpoint and decided on "a" and on "b"; each of the other three knew both,
\* and covered "a", first, with a decision on it.
SeedCheckpoints ==
    (Key(Category, NameA) :> [usage_count |-> 4, decision_count |-> 4])
    @@ (Key(Category, NameB) :> [usage_count |-> 1, decision_count |-> 1])

SeedScores ==
    Key(Category, NameA) :>
        [times_covered |-> 3, times_led_to_decision |-> 3,
         decision_rate |-> Numeric4(bayesianDecisionRate(3, 3)),
         avg_position |-> Numeric2OfInt(1), position_samples |-> 3]

SeedMetadata ==
    ([category |-> Category, checkpoints_covered |-> <<>>,
      checkpoints_total |-> 0, total_qas |-> 0, total_decisions |-> 2,
      duration_seconds |-> 10] :> 1)
    @@ ([category |-> Category, checkpoints_covered |-> <<NameA>>,
         checkpoints_total |-> 2, total_qas |-> 0, total_decisions |-> 1,
         duration_seconds |-> 10] :> 3)

SeedPatterns ==
    ([category |-> Category, coverage_sequence |-> <<>>,
      decision_checkpoints |-> <<>>, total_qas |-> 0,
      total_decisions |-> 2, total_checkpoints_available |-> 0] :> 1)
    @@ ([category |-> Category, coverage_sequence |-> <<NameA>>,
         decision_checkpoints |-> <<NameA>>, total_qas |-> 0,
         total_decisions |-> 1, total_checkpoints_available |-> 2] :> 3)

Init ==
    /\ checkpoints = SeedCheckpoints
    /\ checkpoint_scores = SeedScores
    /\ interview_metadata = SeedMetadata
    /\ interview_patterns = SeedPatterns
    /\ requests = <<>>
    /\ sessions = << >>
    /\ order = <<>>
    /\ starts = <<>>
    /\ clock = 0
    /\ calls = 0
    /\ lastError = [tool |-> "none", text |-> <<>>]

\* ------------------------------------------------------ the steps of the handler
HandlerStep ==
    \/ \E i \in 1..Len(requests) : InsertMetadata(i)
    \/ \E i \in 1..Len(requests) : LoadExistingCheckpoints(i)
    \/ \E i \in 1..Len(requests) : InsertCheckpoints(i)
    \/ \E i \in 1..Len(requests) : \E j \in 1..Len(requests[i].cpUpdates) :
            UpdateCheckpoint(i, j)
    \/ \E i \in 1..Len(requests) : InsertPattern(i)
    \/ \E i \in 1..Len(requests) : LoadExistingScores(i)
    \/ \E i \in 1..Len(requests) : InsertScores(i)
    \/ \E i \in 1..Len(requests) : \E j \in 1..Len(requests[i].scoreUpdates) :
            UpdateScore(i, j)

\* ----------------------------------------- Spec: the server and the edge function
AllCovered == { <<>>, <<RawA>>, <<RawA, RawA2>>, <<RawB>>, <<RawB, RawA>>, <<RawZ>> }
AllSeconds == { 0, 1, 10 }

Next ==
    \/ /\ Len(starts) < MaxStarts
       /\ \E topic \in TopicInputs, category \in CategoryInputs :
            StartInterview(topic, category)
    \/ \E k \in 1..Len(starts) : StartLoadCheckpoints(k)
    \/ \E k \in 1..Len(starts) : StartLoadCheckpointScores(k)
    \/ \E k \in 1..Len(starts) : CreateSession(k)
    \/ /\ calls < MaxCalls
       /\ \E session_id \in SessionIdInputs, type \in {"qa", "decision"},
             complete \in BOOLEAN, topic \in {RawA, RawNew},
             covered_checkpoints \in AllCovered :
                Record(session_id, type, complete, topic, covered_checkpoints)
    \/ \E session_id \in SessionIdInputs : GetContext(session_id)
    \/ /\ calls < MaxCalls
       /\ \E session_id \in SessionIdInputs, seconds \in AllSeconds :
            EndInterview(session_id, seconds)
    \/ HandlerStep

Spec == Init /\ [][Next]_vars

\* ------------- SpecServer: the server alone, its callers taking turns as they please
ServerCovered == { <<RawA>> }

NextServer ==
    \/ /\ Len(starts) < MaxStarts
       /\ \E topic \in TopicInputs, category \in CategoryInputs :
            StartSession(topic, category)
    \/ /\ calls < MaxCalls
       /\ \E session_id \in SessionIdInputs, type \in {"qa", "decision"},
             complete \in BOOLEAN, covered_checkpoints \in ServerCovered :
                Record(session_id, type, complete, RawA, covered_checkpoints)
    \/ \E session_id \in SessionIdInputs : GetContext(session_id)
    \/ /\ calls < MaxCalls
       /\ \E session_id \in SessionIdInputs : EndInterview(session_id, 10)

SpecServer == Init /\ [][NextServer]_vars

\* ------- SpecIngest: the edge function alone, serving the payloads its clients post
\* a session that started on the catalog of Init and made one record
SampleSession ==
    newSession(0, <<"P", " ">>, Category, <<NameA, NameB>>, << >>, 0, <<0, 1>>)

\* a payload built by a script: two covered names that have no score row yet
ScriptPayload ==
    [category |-> Category,
     covered_checkpoints |-> <<NameB, RawZ>>,
     checkpoints_total |-> 2,
     total_qas |-> 0,
     total_decisions |-> 1,
     duration_seconds |-> 10,
     coverage_order |-> <<[checkpoint_name |-> NameB, led_to_decision |-> FALSE],
                          [checkpoint_name |-> RawZ, led_to_decision |-> TRUE]>>,
     decision_topics |-> <<>>,
     known_checkpoint_names |-> <<NameA, NameB>>]

IngestBodies ==
    { payloadOf(recorded(SampleSession, type, TRUE, RawA, covered_checkpoints), 10) :
        type \in {"qa", "decision"}, covered_checkpoints \in { <<RawA>>, <<RawB>> } }
    \cup { payloadOf(recorded(SampleSession, "decision", TRUE, RawNew, <<>>), 10),
           payloadOf(SampleSession, 10),
           ScriptPayload }

NextIngest ==
    \/ /\ Len(requests) < MaxPosts
       /\ \E body \in IngestBodies : PostPayload(body)
    \/ HandlerStep

SpecIngest == Init /\ [][NextIngest]_vars

\* ------ SpecQueue: the edge function serving its requests one at a time, each
\* posted after the one before it was answered
Quiet == \A i \in 1..Len(requests) : ~ InFlight(requests[i])

\* a session that started on an empty catalog
BlankSession == newSession(0, <<"P", " ">>, Category, <<>>, << >>, 0, <<0, 1>>)

\* a payload of another client: a covered name that is new to the catalog and is a
\* decision topic, while its coverage event led to no decision
ScriptTopicPayload ==
    [ScriptPayload EXCEPT
        !.covered_checkpoints = <<RawZ>>,
        !.coverage_order = <<[checkpoint_name |-> RawZ, led_to_decision |-> FALSE]>>,
        !.decision_topics = <<RawZ>>]

\* a payload of another client that lists one name in two spellings, the second
\* with a decision, under a category typed with a capital
VariantPayload(first, second) ==
    [ScriptPayload EXCEPT
        !.category = <<"P">>,
        !.covered_checkpoints = <<first, second>>,
        !.coverage_order = <<[checkpoint_name |-> first, led_to_decision |-> FALSE],
                             [checkpoint_name |-> second, led_to_decision |-> TRUE]>>]

QueueBodies ==
    IngestBodies
    \cup { VariantPayload(RawA, RawA2), VariantPayload(RawC, RawC2) }
    \cup { payloadOf(recorded(recorded(SampleSession, "decision", TRUE, RawNew, <<>>),
                              "decision", TRUE, RawNew, <<>>), 10),
           payloadOf(recorded(BlankSession, "decision", TRUE, RawA, <<>>), 10),
           ScriptTopicPayload }

NextQueue ==
    \/ /\ Quiet /\ Len(requests) < MaxQueued
       /\ \E body \in QueueBodies : PostPayload(body)
    \/ HandlerStep

SpecQueue == Init /\ [][NextQueue]_vars

\* ------ SpecCrowd: clients posting at once payloads that name one checkpoint
\* twice, under two spellings that normalise to the same name
CrowdBodies ==
    { VariantPayload(RawA, RawA2), VariantPayload(RawC, RawC2), ScriptPayload }

NextCrowd ==
    \/ /\ Len(requests) < MaxPosts
       /\ \E body \in CrowdBodies : PostPayload(body)
    \/ HandlerStep

SpecCrowd == Init /\ [][NextCrowd]_vars

\* ------ SpecReturn: sessions started on the store as earlier sessions left it,
\* and recorded into once no further payload is posted
ReturnBodies ==
    { payloadOf(recorded(SampleSession, "decision", TRUE, RawNew, <<>>), 10),
      payloadOf(recorded(SampleSession, "decision", TRUE, RawBlank, <<>>), 10),
      ScriptPayload }

ReturnCovered == { <<RawB, RawA>>, <<RawBlank>> }

NextReturn ==
    \/ /\ Quiet /\ Len(requests) < MaxQueued /\ calls = 0
       /\ \E body \in ReturnBodies : PostPayload(body)
    \/ HandlerStep
    \/ /\ Quiet /\ Len(starts) < MaxSessions
       /\ \E topic \in TopicInputs, category \in CategoryInputs :
            StartSession(topic, category)
    \/ /\ Quiet /\ calls < MaxSessions
       /\ \E session_id \in DOMAIN sessions, type \in {"qa", "decision"},
             covered_checkpoints \in ReturnCovered :
                Record(session_id, type, TRUE, RawNew, covered_checkpoints)

SpecReturn == Init /\ [][NextReturn]_vars

\* ------ SpecRate: bayesianDecisionRate applied by the handler to score rows of
\* any counts: the store of Init but for the counts of the score row of "a"
RateInputs ==
    { [decisions |-> d, covered |-> c] : d \in 0..MaxRateCovered, c \in 1..MaxRateCovered }

InitRate ==
    /\ checkpoints = SeedCheckpoints
    /\ \E in \in RateInputs :
        /\ in.decisions <= in.covered
        /\ checkpoint_scores =
                Key(Category, NameA) :>
                    [times_covered |-> in.covered,
                     times_led_to_decision |-> in.decisions,
                     decision_rate |->
                        Numeric4(bayesianDecisionRate(in.decisions, in.covered)),
                     avg_position |-> Numeric2OfInt(1),
                     position_samples |-> in.covered]
    /\ interview_metadata = SeedMetadata
    /\ interview_patterns = SeedPatterns
    /\ requests = <<>>
    /\ sessions = << >>
    /\ order = <<>>
    /\ starts = <<>>
    /\ clock = 0
    /\ calls = 0
    /\ lastError = [tool |-> "none", text |-> <<>>]

RateBodies ==
    { payloadOf(recorded(SampleSession, type, TRUE, RawA, <<RawA>>), 10) :
        type \in {"qa", "decision"} }
    \cup { ScriptPayload }

NextRate ==
    \/ /\ Quiet /\ Len(requests) < MaxQueued
       /\ \E body \in RateBodies : PostPayload(body)
    \/ HandlerStep

SpecRate == InitRate /\ [][NextRate]_vars

\* ---- SpecSerial: one caller who awaits each answer and whose calls resolve a
\* session, and the edge function it posts to
\* the caller passes a session_id, or none, that resolves to a session
ResolvingIds == { id \in SessionIdInputs : findSession(id) # Omitted }

\* the caller has no session open
Idle == \A id \in DOMAIN sessions : sessions[id].status # "active"

SerialCovered == { <<RawA, RawA2>>, <<RawB>>, <<RawZ>> }

NextSerial ==
    \/ /\ Quiet /\ Idle /\ Len(starts) < MaxSessions
       /\ \E topic \in TopicInputs, category \in CategoryInputs :
            StartSession(topic, category)
    \/ /\ Quiet /\ calls < MaxTurns
       /\ \E session_id \in ResolvingIds, type \in {"qa", "decision"},
             covered_checkpoints \in SerialCovered :
                Record(session_id, type, TRUE, RawNew, covered_checkpoints)
    \/ /\ Quiet
       /\ \E session_id \in ResolvingIds : GetContext(session_id)
    \/ /\ Quiet /\ calls < MaxTurns
       /\ \E session_id \in ResolvingIds, seconds \in AllSeconds :
            EndInterview(session_id, seconds)
    \/ HandlerStep

SpecSerial == Init /\ [][NextSerial]_vars

\* -- SpecOutage: that caller while the edge function is out of reach now and then.
\* The handler goes on with a request it has received; nothing obliges the caller
\* to call again.
NextOutage ==
    \/ /\ Quiet /\ Idle /\ Len(starts) < MaxSessions
       /\ \E topic \in TopicInputs, category \in CategoryInputs :
            StartSession(topic, category)
    \/ /\ Quiet /\ calls < MaxTurns
       /\ \E session_id \in ResolvingIds, type \in {"qa", "decision"},
             covered_checkpoints \in SerialCovered :
                Record(session_id, type, TRUE, RawNew, covered_checkpoints)
    \/ /\ Quiet /\ calls < MaxTurns
       /\ \E session_id \in ResolvingIds, seconds \in AllSeconds :
            EndInterview(session_id, seconds)
    \/ /\ Quiet /\ calls < MaxTurns
       /\ \E session_id \in ResolvingIds, seconds \in AllSeconds :
            EndInterviewOutage(session_id, seconds)
    \/ HandlerStep

SpecOutage == Init /\ [][NextOutage]_vars /\ WF_vars(HandlerStep)

\* -- SpecShared: that caller, and another client whose payloads reach the edge
\* function while the caller's is being served
OtherBodies ==
    { payloadOf(recorded(SampleSession, type, TRUE, RawA, <<RawA>>), 10) :
        type \in {"qa", "decision"} }

NextShared ==
    \/ /\ Quiet /\ Idle /\ Len(starts) < MaxSessions
       /\ \E topic \in TopicInputs, category \in CategoryInputs :
            StartSession(topic, category)
    \/ /\ Quiet /\ calls < MaxTurns
       /\ \E session_id \in ResolvingIds, type \in {"qa", "decision"},
             covered_checkpoints \in SerialCovered :
                Record(session_id, type, TRUE, RawNew, covered_checkpoints)
    \/ /\ Quiet
       /\ \E session_id \in ResolvingIds : GetContext(session_id)
    \/ /\ Quiet /\ calls < MaxTurns
       /\ \E session_id \in ResolvingIds, seconds \in AllSeconds :
            EndInterview(session_id, seconds)
    \/ /\ Len(requests) < MaxPosts
       /\ \E body \in OtherBodies : PostPayload(body)
    \/ HandlerStep

SpecShared == Init /\ [][NextShared]_vars

\* ------ SpecGate: the edge function alone, serving whatever bodies reach its URL
\* a payload of one covered checkpoint with these counts and this duration
GatePayload(total_qas, total_decisions, duration_seconds) ==
    [category |-> Category,
     covered_checkpoints |-> <<NameA>>,
     checkpoints_total |-> 2,
     total_qas |-> total_qas,
     total_decisions |-> total_decisions,
     duration_seconds |-> duration_seconds,
     coverage_order |-> <<[checkpoint_name |-> NameA, led_to_decision |-> TRUE]>>,
     decision_topics |-> <<>>,
     known_checkpoint_names |-> <<NameA, NameB>>]

GateQas == { 0, 1 }
GateDecisions == { 0, 1, 15, 16 }
GateSeconds == { 0, 9, 10, 30 }

\* b with one field replaced
With(b, f, x) == JObject([b.v EXCEPT ![f] = x])

Chars(n) == [i \in 1..n |-> "x"]
Names(n) == JArray([i \in 1..n |-> JString(<<"x">>)])
Event(name, flag) == JObject([checkpoint_name |-> name, led_to_decision |-> flag])

\* bodies that differ from b in one field, most of them past a limit of validate
\* or of a type validate rejects, some just within the limits
OneFieldOff(b) ==
    { With(b, "category", x) :
        x \in { JString(<<>>), JString(RawBlank), JString(Chars(MaxCategoryLen)),
                JString(Chars(MaxCategoryLen + 1)), JNumber(1), Undefined } }
    \cup { With(b, "covered_checkpoints", x) :
        x \in { Names(MaxListLen + 1), JNull, JArray(<<JNumber(5)>>),
                JArray(<<JString(Chars(MaxNameLen + 1))>>) } }
    \cup { With(b, f, x) :
        f \in { "checkpoints_total", "total_qas", "total_decisions" },
        x \in { JNumber(-1), JNumber(MaxCount), JNumber(MaxCount + 1),
                JString(<<"2">>) } }
    \cup { With(b, "duration_seconds", x) :
        x \in { JNumber(-1), JNumber(MaxDuration), JNumber(MaxDuration + 1), JNull } }
    \cup { With(b, "coverage_order", x) :
        x \in { JArray([i \in 1..(MaxListLen + 1) |->
                        Event(JString(<<"x">>), JBoolean(FALSE))]),
                JObject(<< >>),
                JArray(<<Event(JNumber(5), JBoolean(TRUE))>>),
                JArray(<<Event(JString(Chars(MaxNameLen + 1)), JBoolean(TRUE))>>),
                JArray(<<Event(JString(NameA), JNumber(1))>>),
                JArray(<<JString(NameA)>>),
                JArray(<<JNull>>) } }
    \cup { With(b, "decision_topics", x) :
        x \in { Names(MaxListLen + 1), JString(NameA), JArray(<<JBoolean(TRUE)>>),
                JArray(<<JString(Chars(MaxNameLen))>>),
                JArray(<<JString(Chars(MaxNameLen + 1))>>) } }
    \cup { With(b, "known_checkpoint_names", x) :
        x \in { Names(MaxKnown), Names(MaxKnown + 1), JNull, JArray(<<JNumber(5)>>) } }
    \cup { With(With(b, "coverage_order", JArray(<<JNull>>)),
                 "decision_topics", JArray(<<JNumber(5)>>)) }

GateBodies ==
    { stringify(GatePayload(q, d, s)) :
        q \in GateQas, d \in GateDecisions, s \in GateSeconds }
    \cup OneFieldOff(stringify(GatePayload(1, 1, 10)))
    \cup OneFieldOff(stringify(GatePayload(0, 0, 10)))
    \cup OneFieldOff(stringify(GatePayload(1, 1, 9)))
    \cup { JNull, JString(<<"{", "}">>), JArray(<<>>) }
    \cup { stringify([GatePayload(0, 1, 10) EXCEPT
                !.covered_checkpoints = names,
                !.coverage_order = [i \in 1..Len(names) |->
                    [checkpoint_name |-> names[i], led_to_decision |-> i = 2]]]) :
            names \in { <<NameB>>, <<NameB, NameB>>, <<RawZ, RawZ>>, <<NameB, RawZ>> } }

NextGate ==
    \/ /\ Len(requests) < MaxBodies
       /\ \E body \in GateBodies : PostJson(body)
    \/ HandlerStep

SpecGate == Init /\ [][NextGate]_vars

\* ------ SpecPaths: the caller of SpecSerial on a server of either
\* configuration: isUsingSharedSupabase() is the same at every end_interview of
\* a process, so a behaviour posts to the edge function or writes directly
NextPaths ==
    \/ /\ Quiet /\ Idle /\ Len(starts) < MaxSessions
       /\ \E topic \in TopicInputs, category \in CategoryInputs :
            StartSession(topic, category)
    \/ /\ Quiet /\ calls < MaxTurns
       /\ \E session_id \in ResolvingIds, type \in {"qa", "decision"},
             covered_checkpoints \in SerialCovered :
                Record(session_id, type, TRUE, RawNew, covered_checkpoints)
    \/ /\ Quiet /\ calls < MaxTurns
       /\ \A id \in DOMAIN sessions : sessions[id].uploads = 0 \/ requests # <<>>
       /\ \E session_id \in ResolvingIds, seconds \in AllSeconds :
            EndInterview(session_id, seconds)
    \/ /\ calls < MaxTurns
       /\ requests = <<>>
       /\ \E session_id \in ResolvingIds, seconds \in AllSeconds :
            EndInterviewDirect(session_id, seconds)
    \/ HandlerStep

SpecPaths == Init /\ [][NextPaths]_vars

\* ------ SpecSender: the seeding script posting its payloads with sendPayload
\* (part_006), one call after the other; it is the only client
maxRetries == 3

\* the payloads main hands to sendPayload, in its order: one that validate turns
\* away (total_qas above 500), one that isSpamOrEmpty turns away (neither a Q&A
\* nor a decision), and two that pass
SenderScript ==
    << [ScriptPayload EXCEPT !.total_qas = MaxCount + 1,
                             !.duration_seconds = MaxDuration],
       [ScriptPayload EXCEPT !.total_decisions = 0],
       ScriptPayload,
       payloadOf(recorded(SampleSession, "decision", TRUE, RawA, <<RawA>>), 10) >>

\* the requests one sendPayload call has made: its loop counter attempt
AttemptsOf(payload) ==
    { i \in 1..Len(requests) : requests[i].body = stringify(payload) }

\* sendPayload has returned: on res.ok || res.status === 207, on 422, or with
\* the last attempt
sendPayloadReturned(payload) ==
    LET made == AttemptsOf(payload)
        last == CHOOSE i \in made : \A j \in made : j <= i
    IN  /\ made # {}
        /\ ~ InFlight(requests[last])
        /\ \/ requests[last].status \in 200..299
           \/ requests[last].status = 422
           \/ Cardinality(made) >= maxRetries

\* one pass of the loop: the fetch reaches the handler, or throws, or is answered
\* by the platform with a server error; every other response leads to the next
\* pass while attempt < maxRetries
sendPayload(k) ==
    /\ \A j \in 1..(k - 1) : sendPayloadReturned(SenderScript[j])
    /\ ~ sendPayloadReturned(SenderScript[k])
    /\ Quiet
    /\ \/ requests' = Append(requests, Receive(stringify(SenderScript[k]), {}))
       \/ requests' = Append(requests, Unreached(stringify(SenderScript[k])))
    /\ UNCHANGED <<storeVars, sessionVars>>

NextSender ==
    \/ \E k \in 1..Len(SenderScript) : sendPayload(k)
    \/ HandlerStep

SpecSender == Init /\ [][NextSender]_vars

\* ======================================================================= claims
\* what the requests answered so far say of themselves
Answered(i) == requests[i].pc = "done"
Accepted(i) == Answered(i) /\ requests[i].status = 200
Rejected(i) == Answered(i) /\ requests[i].status \in {400, 422, 500}
AllSettled == \A i \in 1..Len(requests) : Accepted(i) \/ Rejected(i)

\* the accepted requests that list the catalog key among their covered checkpoints
CoveringRequests(k) ==
    { i \in 1..Len(requests) :
        /\ Accepted(i)
        /\ requests[i].payload.category = k[1]
        /\ k[2] \in Range(requests[i].payload.covered_checkpoints) }

\* the coverage events of accepted requests that name the score key
CoverageEventsOf(k) ==
    { e \in { <<i, j>> : i \in 1..Len(requests), j \in 1..MaxListLen } :
        /\ Accepted(e[1])
        /\ requests[e[1]].payload.category = k[1]
        /\ e[2] <= Len(requests[e[1]].payload.coverage_order)
        /\ requests[e[1]].payload.coverage_order[e[2]].checkpoint_name = k[2] }

\* C1 - once two or more accepted ingestions that cover the same (category, name)
\* have all finished, the entry's usage_count is its value before them plus their
\* number, and its decision_count its value before plus the number of them in
\* which the name was decision-led.
C1_NoCatalogIncrementLost ==
    AllSettled =>
        \A k \in DOMAIN SeedCheckpoints :
            LET hits == CoveringRequests(k)
                led == { i \in hits :
                            k[2] \in decisionCpSet(requests[i].payload.coverage_order) }
            IN  Cardinality(hits) >= 2 =>
                    /\ checkpoints[k].usage_count =
                            SeedCheckpoints[k].usage_count + Cardinality(hits)
                    /\ checkpoints[k].decision_count =
                            SeedCheckpoints[k].decision_count + Cardinality(led)

\* C2 - once two or more accepted ingestions whose coverage_order names the same
\* (category, checkpoint_name) have all finished, the score record's times_covered
\* and position_samples have each grown by the number of those events and its
\* times_led_to_decision by the number of them that led to a decision.
C2_NoScoreIncrementLost ==
    AllSettled =>
        \A k \in DOMAIN SeedScores :
            LET events == CoverageEventsOf(k)
                led == { e \in events :
                            requests[e[1]].payload.coverage_order[e[2]].led_to_decision }
            IN  Cardinality({ e[1] : e \in events }) >= 2 =>
                    /\ checkpoint_scores[k].times_covered =
                            SeedScores[k].times_covered + Cardinality(events)
                    /\ checkpoint_scores[k].position_samples =
                            SeedScores[k].position_samples + Cardinality(events)
                    /\ checkpoint_scores[k].times_led_to_decision =
                            SeedScores[k].times_led_to_decision + Cardinality(led)

\* C3 - from one store state to the next no catalog entry is removed and neither
\* its usage_count nor its decision_count decreases.
C3_CatalogGrowsMonotonically ==
    [][\A k \in DOMAIN checkpoints :
            /\ k \in DOMAIN checkpoints'
            /\ checkpoints'[k].usage_count >= checkpoints[k].usage_count
            /\ checkpoints'[k].decision_count >= checkpoints[k].decision_count]_vars

\* C4 as the claim states it - every score record's decision_rate is exactly
\* (times_led_to_decision + 0.6) / (times_covered + 2) of the counts stored in that
\* record, and lies strictly between 0 and 1.
C4_RateIsTheExactQuotient ==
    \A k \in DOMAIN checkpoint_scores :
        LET row == checkpoint_scores[k]
            q == bayesianDecisionRate(row.times_led_to_decision, row.times_covered)
        IN  /\ row.decision_rate * q.den = 10000 * q.num
            /\ 0 < row.decision_rate /\ row.decision_rate < 10000

\* C4 amended - every score record's decision_rate is the quotient
\* (times_led_to_decision + 0.6) / (times_covered + 2) of the counts stored in that
\* record rounded to the four decimal places of its numeric(5,4) column, and the
\* quotient lies strictly between 0 and 1.
C4_RateIsTheRoundedQuotient ==
    \A k \in DOMAIN checkpoint_scores :
        LET row == checkpoint_scores[k]
            q == bayesianDecisionRate(row.times_led_to_decision, row.times_covered)
            diff == row.decision_rate * q.den - 10000 * q.num
        IN  /\ 2 * diff <= q.den /\ -2 * diff <= q.den
            /\ 0 < q.num /\ q.num < q.den

\* the handler has updated the score row of "a" and inserted one for "b"
C4_Witness ==
    /\ Key(Category, NameB) \in DOMAIN checkpoint_scores
    /\ checkpoint_scores[Key(Category, NameA)].times_covered >
            SeedScores[Key(Category, NameA)].times_covered
    /\ checkpoint_scores[Key(Category, NameA)].decision_rate #
            SeedScores[Key(Category, NameA)].decision_rate

\* the sessions that are the same object before and after the step
SameSessions ==
    { id \in DOMAIN sessions \cap DOMAIN sessions' :
        sessions'[id].serial = sessions[id].serial }

NamesOf(log) == [i \in 1..Len(log) |-> log[i].checkpointName]

\* the place of the event of `name` in the log (0 when it has none)
PlaceOf(log, name) ==
    IF \E i \in 1..Len(log) : log[i].checkpointName = name
    THEN CHOOSE i \in 1..Len(log) : log[i].checkpointName = name
    ELSE 0

\* C5 - after any sequence of record calls on a session its coverage-order log
\* holds at most one event per checkpoint name, and two events of the log keep
\* their relative order in every later log.
C5_OneEventPerNameInStableOrder ==
    [][\A id \in SameSessions :
            LET old == NamesOf(sessions[id].coverageOrder)
                new == NamesOf(sessions'[id].coverageOrder)
            IN  /\ \A i, j \in 1..Len(new) : new[i] = new[j] => i = j
                /\ \A i, j \in 1..Len(old) :
                        i < j => \E m, n \in 1..Len(new) :
                                    m < n /\ new[m] = old[i] /\ new[n] = old[j]]_vars

\* a session whose log holds two events after three records, one of which named
\* a checkpoint twice
C5_Witness ==
    \E id \in DOMAIN sessions :
        /\ Len(sessions[id].coverageOrder) = 2
        /\ sessions[id].coverageOrder[1].checkpointName = NameB
        /\ Len(sessions[id].entries) + Len(sessions[id].decisions) = 3

\* the step is a record call of type decision that resolves to session `id` and
\* names `name`
DecisionRecordNaming(id, name) ==
    \E session_id \in SessionIdInputs, covered_checkpoints \in SerialCovered :
        /\ findSession(session_id) = id
        /\ name \in Range(normalizeKeys(covered_checkpoints))
        /\ Record(session_id, "decision", TRUE, RawNew, covered_checkpoints)

\* C6 - the ledToDecision flag of a coverage event never goes from true to false,
\* and goes from false to true only in a record call of type decision that names
\* the event's checkpoint.
C6_FlagOnlyRisesByDecision ==
    [][\A id \in SameSessions :
            \A i \in 1..Len(sessions[id].coverageOrder) :
                LET e == sessions[id].coverageOrder[i]
                    at == PlaceOf(sessions'[id].coverageOrder, e.checkpointName)
                IN  /\ at # 0
                    /\ e.ledToDecision => sessions'[id].coverageOrder[at].ledToDecision
                    /\ (~ e.ledToDecision /\ sessions'[id].coverageOrder[at].ledToDecision)
                            => DecisionRecordNaming(id, e.checkpointName)]_vars

\* an event a qa record created has been credited, and a qa record came after
C6_Witness ==
    \E id \in DOMAIN sessions :
        /\ \E i \in 1..Len(sessions[id].coverageOrder) :
                /\ sessions[id].coverageOrder[i].firstBy = "qa"
                /\ sessions[id].coverageOrder[i].ledToDecision
        /\ Len(sessions[id].entries) = 2

\* the last request, answered 200
LastAccepted == Len(requests) > 0 /\ Accepted(Len(requests))

\* a column of the score row of `name`, 0 when the table has no such row
ScoreCount(rows, name, column) == IF name \in DOMAIN rows THEN rows[name][column] ELSE 0

\* every accepted request has left each name of its retro set with at least one
\* more decision than the score rows had when its payload was posted
RetroCredited ==
    \A n \in 1..Len(requests) :
        Accepted(n) =>
            LET r == requests[n]
                after == RowsOf(checkpoint_scores, r.payload.category)
            IN  \A name \in r.retro :
                    /\ name \in DOMAIN after
                    /\ after[name].times_led_to_decision >=
                            ScoreCount(r.scoresBefore, name, "times_led_to_decision") + 1

\* C7 - when a decision record names a checkpoint whose coverage event a qa record
\* created, the event keeps its place in the log and its ledToDecision is true;
\* and when the session has ended and its payload was accepted, the score record's
\* times_led_to_decision of that checkpoint has grown by one.
C7_RetroactiveCredit ==
    [][/\ \A id \in SameSessions :
            \A i \in 1..Len(sessions[id].coverageOrder) :
                LET e == sessions[id].coverageOrder[i]
                IN  (e.firstBy = "qa" /\ DecisionRecordNaming(id, e.checkpointName))
                        => /\ i <= Len(sessions'[id].coverageOrder)
                           /\ sessions'[id].coverageOrder[i] =
                                    [e EXCEPT !.ledToDecision = TRUE]
       /\ RetroCredited']_vars

\* C8 - when the payload of a session driven through start, record calls and one
\* end has been accepted and no one else wrote, times_covered of each checkpoint
\* the session covered is one more than before and times_covered of every other
\* checkpoint is as before.
C8_CoveredOncePerSession ==
    LastAccepted =>
        LET r == requests[Len(requests)]
            after == RowsOf(checkpoint_scores, r.payload.category)
            covered == Range(r.payload.covered_checkpoints)
        IN  \A name \in DOMAIN after \cup DOMAIN r.scoresBefore
                        \cup Range(r.payload.known_checkpoint_names) :
                ScoreCount(after, name, "times_covered") =
                    ScoreCount(r.scoresBefore, name, "times_covered")
                        + (IF name \in covered THEN 1 ELSE 0)

\* the accepted payload is of a session in which two records named "b" and none
\* named "a"
C8_Witness ==
    /\ LastAccepted
    /\ requests[Len(requests)].retro = {NameB}
    /\ requests[Len(requests)].payload.covered_checkpoints = <<NameB>>
    /\ checkpoint_scores[Key(Category, NameB)].times_covered = 1
    /\ checkpoint_scores[Key(Category, NameA)] = SeedScores[Key(Category, NameA)]

\* the step is a call that names session `id` explicitly
CallNaming(id) ==
    \/ \E type \in {"qa", "decision"}, covered_checkpoints \in ServerCovered :
            Record(id, type, TRUE, RawA, covered_checkpoints)
    \/ GetContext(id)
    \/ EndInterview(id, 10)

\* C9 - a record, get_context or end call that carries an explicit session_id
\* changes no session but the one it names.
C9_NamedCallTouchesOnlyItsSession ==
    [][\A id \in DOMAIN sessions :
            \/ \A other \in DOMAIN sessions \ {id} :
                    /\ other \in DOMAIN sessions'
                    /\ sessions'[other] = sessions[other]
            \/ ~ CallNaming(id)]_vars

\* two sessions are open, the later one the fallback, and each holds a record made
\* after the later one started: the earlier one's was made with its id
C9_Witness ==
    \E x, y \in DOMAIN sessions :
        /\ sessions[x].startedAt < sessions[y].startedAt
        /\ sessions[y].status = "active"
        /\ Len(sessions[y].entries) + Len(sessions[y].decisions) > 0
        /\ \E i \in 1..Len(sessions[x].entries) :
                sessions[x].entries[i].timestamp >= sessions[y].startedAt

\* C10 - once n start_interview calls have all completed the registry holds n
\* sessions with pairwise distinct ids.
C10_EveryStartRegistersItsOwnSession ==
    (\A k \in 1..Len(starts) : starts[k].pc = "done")
        => Cardinality(DOMAIN sessions) = Len(starts)

\* the sessions whose status is active
ActiveIds == { id \in DOMAIN sessions : sessions[id].status = "active" }

\* C11: without an id, the lookup finds none exactly when no session is active;
\* otherwise it finds an active session that no active session started after,
\* and so never a completed one
C11_FallbackFindsTheLatestActive ==
    LET found == findSession(Omitted)
    IN  /\ (found = Omitted) <=> (ActiveIds = {})
        /\ found # Omitted =>
                /\ found \in ActiveIds
                /\ \A id \in ActiveIds :
                        sessions[id].startedAt <= sessions[found].startedAt

\* an active session, and a completed one that started after it
C11_Witness ==
    \E a \in ActiveIds : \E c \in DOMAIN sessions :
        /\ sessions[c].status = "completed"
        /\ sessions[c].startedAt > sessions[a].startedAt
        /\ findSession(Omitted) = a

\* a result that tells its caller to start a session
TellsToStart(result) ==
    \E i \in 1..Len(result.text) : result.text[i] = "Use start_interview first."

\* a call of record, get_context or end_interview that passes this session_id
LookupCall(id) ==
    \/ \E type \in {"qa", "decision"}, covered_checkpoints \in ServerCovered :
            Record(id, type, TRUE, RawA, covered_checkpoints)
    \/ GetContext(id)
    \/ EndInterview(id, 10)

\* C12: a call of record, get_context or end_interview that resolves no session
\* returns an error telling the caller to start a session, and leaves the
\* sessions, the requests and the store as they were
C12_NoSessionIsToldAndChangesNothing ==
    [][\A id \in SessionIdInputs :
            findSession(id) = Omitted /\ LookupCall(id) =>
                /\ lastError'.tool # "none"
                /\ TellsToStart(lastError')
                /\ UNCHANGED <<storeVars, requests, sessions, order, starts>>]_vars

\* C13: whatever the calls, end_interview repeated with the session's id among
\* them, the summary of a session is posted at most once
C13_SummarySentAtMostOnce ==
    \A id \in DOMAIN sessions : sessions[id].uploads <= 1

\* a call of start_interview, record or get_context by the caller of SpecSerial
ReadOnlyCall ==
    \/ \E topic \in TopicInputs, category \in CategoryInputs :
            StartSession(topic, category)
    \/ \E session_id \in ResolvingIds, type \in {"qa", "decision"},
          covered_checkpoints \in SerialCovered :
            Record(session_id, type, TRUE, RawNew, covered_checkpoints)
    \/ \E session_id \in ResolvingIds : GetContext(session_id)

\* C14: start_interview, record and get_context leave every table of the shared
\* store as it was: no step that changes a table is one of these calls
C14_OnlyTheEndWrites ==
    [][storeVars' # storeVars => ~ ReadOnlyCall]_vars

\* a session has recorded and covered, and the store is still the one the
\* server started on
C14_Witness ==
    /\ \E id \in DOMAIN sessions :
            /\ Len(sessions[id].entries) + Len(sessions[id].decisions) > 0
            /\ sessions[id].coverageOrder # <<>>
    /\ requests = <<>>
    /\ checkpoints = SeedCheckpoints
    /\ checkpoint_scores = SeedScores
    /\ interview_metadata = SeedMetadata
    /\ interview_patterns = SeedPatterns

\* ---- the validation rules and the anti-abuse conditions, as the claims list them
\* a string of at most max characters
StringWithin(x, max) == x.t = "string" /\ Len(x.v) <= max
\* a number between 0 and max
NumberWithin(x, max) == x.t = "number" /\ x.v >= 0 /\ x.v <= max
\* a list of at most max entries
ListWithin(x, max) == x.t = "array" /\ Len(x.v) <= max
Entries(x) == IF x.t = "array" THEN Range(x.v) ELSE {}

\* the names a body carries: its covered checkpoints, the names of its coverage
\* events and its decision topics
NamesIn(body) ==
    Entries(Field(body, "covered_checkpoints"))
    \cup { Field(e, "checkpoint_name") : e \in Entries(Field(body, "coverage_order")) }
    \cup Entries(Field(body, "decision_topics"))

BreaksAValidationRule(body) ==
    \/ ~ StringWithin(Field(body, "category"), MaxCategoryLen)
    \/ Field(body, "category").v = <<>>
    \/ \E f \in {"covered_checkpoints", "coverage_order", "decision_topics"} :
            ~ ListWithin(Field(body, f), MaxListLen)
    \/ \E name \in NamesIn(body) : ~ StringWithin(name, MaxNameLen)
    \/ \E e \in Entries(Field(body, "coverage_order")) :
            Field(e, "led_to_decision").t # "boolean"
    \/ \E f \in {"checkpoints_total", "total_qas", "total_decisions"} :
            ~ NumberWithin(Field(body, f), MaxCount)
    \/ ~ NumberWithin(Field(body, "duration_seconds"), MaxDuration)
    \/ ~ ListWithin(Field(body, "known_checkpoint_names"), MaxKnown)

\* C15: a request that breaks a validation rule is answered 400 on arrival,
\* before any write
C15_RuleBreakersAnswered400 ==
    \A i \in 1..Len(requests) :
        BreaksAValidationRule(requests[i].body) =>
            requests[i].status = 400 /\ requests[i].pc = "done"

\* the anti-abuse conditions, read off a body that breaks no validation rule
MeetsAnAbuseCondition(body) ==
    LET qas == Field(body, "total_qas").v
        decisions == Field(body, "total_decisions").v
        seconds == Field(body, "duration_seconds").v
        covered == Len(Field(body, "covered_checkpoints").v)
        total == Field(body, "checkpoints_total").v
    IN  \/ qas = 0 /\ decisions = 0
        \/ seconds < MinDuration /\ qas > 0
        \/ seconds > 0 /\ decisions * 60 > MaxDecisionsPerMinute * seconds
        \/ covered > total + decisions

\* C16: a request that breaks no validation rule and meets an anti-abuse condition
\* is answered 422 on arrival, before any write; one that breaks a validation
\* rule is answered 400 whether or not it meets an anti-abuse condition
C16_AbuseAnswered422AfterValidation ==
    \A i \in 1..Len(requests) :
        LET body == requests[i].body
        IN  /\ ~ BreaksAValidationRule(body) /\ MeetsAnAbuseCondition(body) =>
                    requests[i].status = 422 /\ requests[i].pc = "done"
            /\ BreaksAValidationRule(body) => requests[i].status = 400

\* a body that is a RecordPayload within the validation rules
IsValidPayload(body) ==
    /\ ~ BreaksAValidationRule(body)
    /\ \A name \in Entries(Field(body, "known_checkpoint_names")) : name.t = "string"

\* C17: a valid payload with a Q&A and a duration under 10 s is rejected with 422
\* whatever its other fields; the short-session rule rejects no payload of 10 s or
\* more, and a valid payload of exactly 10 s that meets no other anti-abuse
\* condition is let through to the writes
C17_ShortSessionBoundary ==
    \A i \in 1..Len(requests) :
        LET body == requests[i].body
            qas == Field(body, "total_qas").v
            seconds == Field(body, "duration_seconds").v
        IN  IsValidPayload(body) =>
                /\ qas >= 1 /\ seconds < 10 =>
                        requests[i].status = 422 /\ requests[i].pc = "done"
                /\ requests[i].error = "Session too short for recorded content" =>
                        seconds < 10
                /\ qas >= 1 /\ seconds = 10 /\ ~ MeetsAnAbuseCondition(body) =>
                        requests[i].status \in {0, 200, 207}

\* a payload of 9 s with a Q&A, another field at its limit, answered 422
C17_Witness ==
    \E i \in 1..Len(requests) :
        /\ IsValidPayload(requests[i].body)
        /\ Field(requests[i].body, "total_qas").v = 1
        /\ Field(requests[i].body, "duration_seconds").v = 9
        /\ Field(requests[i].body, "total_decisions").v = MaxCount
        /\ requests[i].status = 422

\* C18: a valid payload is rejected with 422 whenever total_decisions * 60 exceeds
\* 30 * duration_seconds, and the decision-rate rule rejects no other payload
C18_RateRuleRejectsExactlyAbove30 ==
    \A i \in 1..Len(requests) :
        LET body == requests[i].body
            decisions == Field(body, "total_decisions").v
            seconds == Field(body, "duration_seconds").v
        IN  IsValidPayload(body) =>
                /\ decisions * 60 > 30 * seconds => requests[i].status = 422
                /\ requests[i].error = "Implausible decision rate" =>
                        decisions * 60 > 30 * seconds

\* C19: an accepted request is answered 200 with no error exactly when every row
\* it was to write was written, and 207 with errors otherwise
C19_OkExactlyWhenAllWritesApplied ==
    \A i \in 1..Len(requests) :
        Answered(i) /\ requests[i].status \in {200, 207} =>
            /\ requests[i].status = 200 <=> requests[i].missed = 0
            /\ requests[i].status = 200 <=> requests[i].errors = {}

\* C20: a score row whose write fails keeps its values, and the other rows of
\* the same request are written all the same, so that once the request is
\* answered every name of its coverage_order has its row
C20_FailureIsPerScoreRow ==
    \A i \in 1..Len(requests) :
        Answered(i) /\ requests[i].status \in {200, 207} =>
            \A j \in 1..Len(requests[i].payload.coverage_order) :
                Key(requests[i].payload.category,
                    requests[i].payload.coverage_order[j].checkpoint_name)
                        \in DOMAIN checkpoint_scores

\* the request is the only one that got past the gate: it worked on the store of Init
Alone(i) == \A j \in 1..Len(requests) : j # i => Rejected(j)

\* the decision topics of a payload that neither its known names nor the catalog
\* of Init hold
NewTopics(payload) ==
    { t \in Range(payload.decision_topics) :
        /\ t \notin Range(payload.known_checkpoint_names)
        /\ Key(payload.category, t) \notin DOMAIN SeedCheckpoints }

\* the batch insert of checkpoints changes no entry the catalog held
InsertSparesTheCatalog ==
    (\E i \in 1..Len(requests) :
        requests[i].pc = "insertCheckpoints" /\ requests'[i].pc # "insertCheckpoints")
    => \A k \in DOMAIN checkpoints :
            k \in DOMAIN checkpoints' /\ checkpoints'[k] = checkpoints[k]

RankOf(coverage_order, name) ==
    IF \E j \in 1..Len(coverage_order) : coverage_order[j].checkpoint_name = name
    THEN CHOOSE j \in 1..Len(coverage_order) : coverage_order[j].checkpoint_name = name
    ELSE 0

\* C22: once the payload of a session is accepted, every decision topic of the
\* session that was not in its checkpoint list has a catalog entry and a score
\* record of times_covered 1, times_led_to_decision 1, decision_rate
\* (1 + 0.6) / (1 + 2) and avg_position its rank in the coverage order.
C22_NewTopicGetsAScoreRecord ==
    \A i \in 1..Len(requests) :
        Accepted(i) =>
            LET payload == requests[i].payload
            IN  \A t \in Range(payload.decision_topics) \ Range(payload.known_checkpoint_names) :
                    LET k == Key(payload.category, t)
                    IN  /\ k \in DOMAIN checkpoints
                        /\ k \in DOMAIN checkpoint_scores
                        /\ checkpoint_scores[k].times_covered = 1
                        /\ checkpoint_scores[k].times_led_to_decision = 1
                        /\ checkpoint_scores[k].decision_rate =
                                Numeric4(bayesianDecisionRate(1, 1))
                        /\ checkpoint_scores[k].avg_position =
                                Numeric2OfInt(RankOf(payload.coverage_order, t))

\* the names of the events of a posted body, normalized, and those of them whose
\* event led to a decision
SequenceOf(body) ==
    LET events == body.v.coverage_order.v
    IN  [j \in 1..Len(events) |-> normalizeKey(events[j].v.checkpoint_name.v)]

RECURSIVE DecidedOf(_, _)
DecidedOf(body, j) ==
    LET events == body.v.coverage_order.v
    IN  IF j > Len(events) THEN <<>>
        ELSE (IF events[j].v.led_to_decision.v
              THEN <<normalizeKey(events[j].v.checkpoint_name.v)>> ELSE <<>>)
             \o DecidedOf(body, j + 1)

\* the requests that got past the gate, and those of them past step 4
PastGate(i) == requests[i].status \notin {400, 422, 500, 503}
PastPattern(i) ==
    PastGate(i) /\ requests[i].pc \in {"loadScores", "insertScores", "updateScores", "done"}

\* the pattern rows and the metadata rows the first n requests are to have
\* appended by now: one of each per request that got that far
RECURSIVE PatternsDue(_)
PatternsDue(n) ==
    IF n = 0 THEN SeedPatterns
    ELSE IF ~ PastPattern(n) THEN PatternsDue(n - 1)
    ELSE PatternsDue(n - 1) (+) SetBag(
            [category |-> normalizeKey(requests[n].body.v.category.v),
             coverage_sequence |-> SequenceOf(requests[n].body),
             decision_checkpoints |-> DecidedOf(requests[n].body, 1),
             total_qas |-> requests[n].body.v.total_qas.v,
             total_decisions |-> requests[n].body.v.total_decisions.v,
             total_checkpoints_available |-> requests[n].body.v.checkpoints_total.v])

RECURSIVE MetadataRowsDue(_)
MetadataRowsDue(n) ==
    IF n = 0 THEN 0
    ELSE MetadataRowsDue(n - 1)
            + (IF PastGate(n) /\ requests[n].pc # "metadata" THEN 1 ELSE 0)

\* every row of the bag is in the other bag at least as often
Within(bag, other) == \A row \in BagToSet(bag) : CopiesIn(row, other) >= CopiesIn(row, bag)

C24_FailedUploadIsRetried ==
    \A i \in 1..MaxTurns :
        (Len(requests) >= i /\ requests[i].status = 503)
            ~> (\E j \in 1..Len(requests) :
                    /\ j > i
                    /\ requests[j].body = requests[i].body
                    /\ requests[j].status # 503)

\* a < b, of two rationals
RateLess(a, b) == a.num * b.den < b.num * a.den

\* C25: for every covered from 0 up to the times_covered of a score row, and for
\* every number of decisions up to covered, bayesianDecisionRate lies strictly
\* between 0 and 1, is greater with one decision more, and is smaller with one
\* coverage more.
C25_RateBetween0And1AndMonotonic ==
    \A k \in DOMAIN checkpoint_scores :
        \A covered \in 0..checkpoint_scores[k].times_covered :
            \A decisions \in 0..covered :
                LET rate == bayesianDecisionRate(decisions, covered)
                IN  /\ 0 < rate.num /\ rate.num < rate.den
                    /\ decisions < covered =>
                            RateLess(rate, bayesianDecisionRate(decisions + 1, covered))
                    /\ RateLess(bayesianDecisionRate(decisions, covered + 1), rate)

\* the handler has computed the rate of a row that had no decision, and of a row
\* whose every coverage led to one
C25_Witness ==
    /\ \E i \in 1..Len(requests) : Accepted(i)
    /\ \E k \in DOMAIN checkpoint_scores :
            /\ checkpoint_scores[k].times_led_to_decision = 0
            /\ checkpoint_scores[k].times_covered = MaxRateCovered + 1
    /\ \E k \in DOMAIN checkpoint_scores :
            /\ checkpoint_scores[k].times_covered >= 1
            /\ checkpoint_scores[k].times_led_to_decision =
                    checkpoint_scores[k].times_covered

\* C26: a start_interview call gives its session the checkpoint ordering that any
\* start_interview call for the category gives on the same stored score records,
\* in whatever order the store returns the names of the catalog.
C26_OrderingFollowsFromTheScores ==
    [][\A id \in DOMAIN sessions' \ DOMAIN sessions :
            LET category == sessions'[id].category
            IN  \A names \in loadCheckpoints(category) :
                    namesOfCheckpoints(
                        sortedCheckpoints(names, loadCheckpointScores(category)))
                    = namesOfCheckpoints(sessions'[id].checkpoints)]_vars

\* a name or a category as the store is to hold it
IsNormal(x) == normalizeKey(x) = x

\* every category and every name of the four tables is a fixed point of normalizeKey
StoredNamesAreNormal ==
    /\ \A k \in DOMAIN checkpoints \cup DOMAIN checkpoint_scores :
            IsNormal(k[1]) /\ IsNormal(k[2])
    /\ \A row \in BagToSet(interview_metadata) :
            /\ IsNormal(row.category)
            /\ \A n \in Range(row.checkpoints_covered) : IsNormal(n)
    /\ \A row \in BagToSet(interview_patterns) :
            /\ IsNormal(row.category)
            /\ \A n \in Range(row.coverage_sequence) \cup Range(row.decision_checkpoints) :
                    IsNormal(n)

\* the names a list of posted strings spells in two different ways
TwiceSpelled(list) ==
    { normalizeKey(list[j].v) :
        j \in { m \in 1..Len(list) :
                    \E n \in 1..Len(list) :
                        /\ list[n].v # list[m].v
                        /\ normalizeKey(list[n].v) = normalizeKey(list[m].v) } }

\* a count of Init, 0 for a row Init does not hold
SeedCount(table, k, column) == IF k \in DOMAIN table THEN table[k][column] ELSE 0

\* C27: the store holds only normalized categories and names; and once a payload
\* that got past the gate is answered, a name it spelled in two ways among its
\* covered checkpoints has its one catalog entry, counted up, and a name it
\* spelled in two ways among its coverage events its one score record, counted up.
C27_VariantsShareOneEntry ==
    /\ StoredNamesAreNormal
    /\ \A i \in 1..Len(requests) :
            Answered(i) /\ requests[i].status \in {200, 207} =>
                LET body == requests[i].body
                    category == normalizeKey(body.v.category.v)
                    events == body.v.coverage_order.v
                IN  /\ \A name \in TwiceSpelled(body.v.covered_checkpoints.v) :
                            LET k == Key(category, name)
                            IN  /\ k \in DOMAIN checkpoints
                                /\ checkpoints[k].usage_count >
                                        SeedCount(SeedCheckpoints, k, "usage_count")
                    /\ \A name \in TwiceSpelled(
                                [j \in 1..Len(events) |-> events[j].v.checkpoint_name]) :
                            LET k == Key(category, name)
                            IN  /\ k \in DOMAIN checkpoint_scores
                                /\ checkpoint_scores[k].times_covered >
                                        SeedCount(SeedScores, k, "times_covered")

\* the score columns an event at rank p is to leave, per the rule of C28
AfterEvent(rows, event, p) ==
    LET name == event.checkpoint_name
        led == IF event.led_to_decision THEN 1 ELSE 0
    IN  IF name \notin DOMAIN rows
        THEN [times_covered |-> 1, times_led_to_decision |-> led,
              avg_position |-> 100 * p, position_samples |-> 1]
        ELSE [times_covered |-> rows[name].times_covered + 1,
              times_led_to_decision |-> rows[name].times_led_to_decision + led,
              avg_position |->
                RoundDiv(rows[name].avg_position * rows[name].position_samples + 100 * p,
                         rows[name].position_samples + 1),
              position_samples |-> rows[name].position_samples + 1]

\* the rows after the events from rank p on, each applied to what the one before left
RECURSIVE AfterEvents(_, _, _)
AfterEvents(rows, events, p) ==
    IF p > Len(events) THEN rows
    ELSE AfterEvents(
            [n \in DOMAIN rows \cup {events[p].checkpoint_name} |->
                IF n = events[p].checkpoint_name THEN AfterEvent(rows, events[p], p)
                ELSE [times_covered |-> rows[n].times_covered,
                      times_led_to_decision |-> rows[n].times_led_to_decision,
                      avg_position |-> rows[n].avg_position,
                      position_samples |-> rows[n].position_samples]],
            events, p + 1)

\* the latest request got past the gate and has been answered
LastServed ==
    /\ Len(requests) > 0
    /\ Answered(Len(requests))
    /\ requests[Len(requests)].status \in {200, 207}

\* C28: requests being served one at a time, once a request is answered the score
\* records of its category are those it found, changed by each event of its
\* coverage_order at its rank: a record inserted with 1, 0 or 1, the rank and 1,
\* or counted up with the average position rounded to 2 decimals.
C28_EachEventChangesItsRecord ==
    LastServed =>
        LET r == requests[Len(requests)]
            due == AfterEvents(r.scoresBefore, r.payload.coverage_order, 1)
            after == RowsOf(checkpoint_scores, r.payload.category)
        IN  \A name \in DOMAIN due :
                /\ name \in DOMAIN after
                /\ \A column \in {"times_covered", "times_led_to_decision",
                                   "avg_position", "position_samples"} :
                        after[name][column] = due[name][column]

\* how many events of the list name the checkpoint
TimesNamed(events, name) ==
    Cardinality({ j \in 1..Len(events) : events[j].checkpoint_name = name })

\* C29: once a request whose coverage_order names a checkpoint k >= 2 times is
\* answered, times_covered and position_samples of its score record are k more
\* than before, whether the record existed or the first of the events created it.
C29_RepeatedNameCountsEveryEvent ==
    LastServed =>
        LET r == requests[Len(requests)]
            events == r.payload.coverage_order
            after == RowsOf(checkpoint_scores, r.payload.category)
        IN  \A j \in 1..Len(events) :
                LET name == events[j].checkpoint_name
                    k == TimesNamed(events, name)
                IN  k >= 2 =>
                        /\ ScoreCount(after, name, "times_covered") =
                                ScoreCount(r.scoresBefore, name, "times_covered") + k
                        /\ ScoreCount(after, name, "position_samples") =
                                ScoreCount(r.scoresBefore, name, "position_samples") + k

\* the step is a record call that resolves to session `id` and lacks a required
\* field of its type
RejectedRecord(id) ==
    \E session_id \in SessionIdInputs, type \in {"qa", "decision"},
       covered_checkpoints \in ServerCovered :
        /\ findSession(session_id) = id
        /\ Record(session_id, type, FALSE, RawA, covered_checkpoints)

\* C30: a record call rejected for a missing required field leaves the session it
\* resolved as it was: no step that changes a session is such a call on it.
C30_RejectedRecordChangesNothing ==
    [][\A id \in DOMAIN sessions :
            sessions'[id] # sessions[id] => ~ RejectedRecord(id)]_vars


\* ---------------------------------------------------------------------- C31
SentAgainAfter(i) ==
    \E j \in 1..Len(requests) : j > i /\ requests[j].body = requests[i].body

PermanentRejectionEndsTheSending ==
    \A i \in 1..Len(requests) :
        Answered(i) /\ requests[i].status \in {400, 422} => ~ SentAgainAfter(i)

TransientFailureIsSentAgain ==
    \A k \in 1..Len(SenderScript) :
        /\ Cardinality(AttemptsOf(SenderScript[k])) <= maxRetries
        /\ ( /\ AttemptsOf(SenderScript[k]) # {}
             /\ \E i \in AttemptsOf(SenderScript[k]) :
                    /\ requests[i].status >= 500
                    /\ \A j \in AttemptsOf(SenderScript[k]) : j <= i
             /\ Cardinality(AttemptsOf(SenderScript[k])) < maxRetries
             => ~ sendPayloadReturned(SenderScript[k]) )

\* C31: sendPayload sends no payload again after it was answered 400 or 422, and
\* sends it again after a network error or a 5xx answer, at most maxRetries
\* times in total.
C31_NoResendAfterPermanentRejection ==
    PermanentRejectionEndsTheSending /\ TransientFailureIsSentAgain


\* ---------------------------------------------------------------------- C32
\* the score start_interview gives a name of a catalog of n names
StartScore(category, name, n) ==
    IF Key(category, name) \in DOMAIN checkpoint_scores
    THEN compositeScore(checkpoint_scores[Key(category, name)].decision_rate, 1, n)
    ELSE ZeroScore

StartedOn(session, catalog) ==
    LET list == session.checkpoints
    IN  /\ Len(list) = Cardinality(catalog)
        /\ { list[i].name : i \in 1..Len(list) } = catalog
        /\ \A i, j \in 1..Len(list) : i < j => ~ ScoreLess(list[i].score, list[j].score)
        /\ \A i \in 1..Len(list) :
                /\ list[i].score = StartScore(session.category, list[i].name, Len(list))
                /\ ~ list[i].covered
        /\ session.coverageOrder = <<>>
        /\ session.entries = <<>>
        /\ session.decisions = <<>>

\* C32: the checkpoint list of a session that has just started is a permutation
\* of the catalog names of its category in order of non-increasing
\* compositeScore, 0 for a name without a score record, with every checkpoint
\* uncovered and the coverage-order log, the entries and the decisions empty.
C32_StartsOnTheSortedCatalog ==
    [][\A id \in DOMAIN sessions' \ DOMAIN sessions :
            StartedOn(sessions'[id],
                      { k[2] : k \in { c \in DOMAIN checkpoints :
                                            c[1] = sessions'[id].category } })]_vars

\* a session has started on a catalog of three names, one that the load returned
\* second having the lowest score
C32_Witness ==
    \E id \in DOMAIN sessions :
        LET list == sessions[id].checkpoints
        IN  /\ Len(list) = 3
            /\ sessions[id].entries = <<>>
            /\ checkpoints[Key(sessions[id].category, list[3].name)].usage_count >
                    checkpoints[Key(sessions[id].category, list[2].name)].usage_count
            /\ ScoreLess(list[3].score, list[2].score)
            /\ ScoreLess(ZeroScore, list[3].score)


\* ---------------------------------------------------------------------- C33
Returned(k) ==
    /\ starts'[k].pc = "done"
    /\ k <= Len(starts) => starts[k].pc # "done"

IsRecommendedPathOf(path, rows) ==
    /\ Range(path) = { n \in DOMAIN rows : rows[n].decision_rate >= 2000 }
    /\ Len(path) = Cardinality(Range(path))
    /\ \A i, j \in 1..Len(path) :
            i < j => rows[path[i]].avg_position <= rows[path[j]].avg_position

Uncovered(session) ==
    { i \in 1..Len(session.checkpoints) : ~ session.checkpoints[i].covered }

HasRecorded(session) == Len(session.entries) + Len(session.decisions) > 0

NextIsABestUncovered(session) ==
    session.next_recommended.given =>
        \E i \in Uncovered(session) :
            /\ session.checkpoints[i].name = session.next_recommended.value
            /\ \A j \in Uncovered(session) :
                    ~ ScoreLess(session.checkpoints[i].score, session.checkpoints[j].score)

\* C34: the next_recommended value a record call returns is an uncovered
\* checkpoint of the session with no uncovered checkpoint of higher score, and
\* it is absent exactly when the session has no uncovered checkpoint.
C34_NextRecommendedIsTheBestUncovered ==
    \A id \in DOMAIN sessions :
        HasRecorded(sessions[id]) =>
            /\ NextIsABestUncovered(sessions[id])
            /\ ~ sessions[id].next_recommended.given <=> Uncovered(sessions[id]) = {}


\* ---------------------------------------------------------------------- C35
Snapshot(session) ==
    [i \in 1..Len(session.checkpoints) |->
        <<session.checkpoints[i].name, session.checkpoints[i].score>>]

SnapshotNames(session) ==
    { session.checkpoints[i].name : i \in 1..Len(session.checkpoints) }

\* a record call on the session that names checkpoints, none of them in the snapshot
RecordOfUnknownNames(id) ==
    \E type \in {"qa", "decision"}, covered_checkpoints \in SerialCovered :
        /\ Range(normalizeKeys(covered_checkpoints)) \cap SnapshotNames(sessions[id]) = {}
        /\ sessions'[id] = recorded(sessions[id], type, TRUE, RawNew, covered_checkpoints)

\* C35: no call adds a checkpoint to a session (the object start_interview
\* created, whatever is registered under its id later) or changes a name or a
\* score of its snapshot, no coverage event names a checkpoint outside the
\* snapshot, and a record call that names only checkpoints outside the snapshot leaves the
\* covered flags and the coverage-order log as they were.
C35_UnknownNamesAreIgnored ==
    [][\A id \in DOMAIN sessions \cap DOMAIN sessions' :
        sessions'[id].serial = sessions[id].serial =>
            /\ Snapshot(sessions'[id]) = Snapshot(sessions[id])
            /\ \A i \in 1..Len(sessions'[id].coverageOrder) :
                    sessions'[id].coverageOrder[i].checkpointName
                        \in SnapshotNames(sessions[id])
            /\ ( \/ sessions'[id].checkpoints # sessions[id].checkpoints
                 \/ sessions'[id].coverageOrder # sessions[id].coverageOrder )
                    => ~ RecordOfUnknownNames(id)]_vars

\* a session has recorded a call that named a checkpoint outside its snapshot:
\* it holds an entry or a decision, and nothing of it is covered
C35_Witness ==
    \E id \in DOMAIN sessions :
        /\ HasRecorded(sessions[id])
        /\ Len(sessions[id].checkpoints) = 2
        /\ Uncovered(sessions[id]) = 1..2
        /\ sessions[id].coverageOrder = <<>>


\* ---------------------------------------------------------------------- C36
\* C36: every row of the four tables carries a category that is not empty; a
\* request whose category is empty after normalization persists nothing.
C36_NoRowWithoutCategory ==
    /\ \A k \in DOMAIN checkpoints \cup DOMAIN checkpoint_scores : k[1] # <<>>
    /\ \A row \in BagToSet(interview_metadata) \cup BagToSet(interview_patterns) :
            row.category # <<>>


\* ---------------------------------------------------------------------- C37
LogMatchesFlags(session) ==
    /\ { session.coverageOrder[i].checkpointName : i \in 1..Len(session.coverageOrder) }
            = { session.checkpoints[i].name :
                    i \in { j \in 1..Len(session.checkpoints) : session.checkpoints[j].covered } }
    /\ Len(session.coverageOrder)
            = Cardinality({ j \in 1..Len(session.checkpoints) : session.checkpoints[j].covered })

PayloadNamesAgree(payload) ==
    /\ Range(payload.covered_checkpoints)
            = { payload.coverage_order[i].checkpoint_name :
                    i \in 1..Len(payload.coverage_order) }
    /\ Range(payload.covered_checkpoints) \subseteq Range(payload.known_checkpoint_names)

\* C37: in every session the names of the coverage-order log are the names of
\* the covered checkpoints, one event for each; the covered_checkpoints and the
\* coverage_order of every payload built at the end name the same checkpoints,
\* all of them among its known_checkpoint_names.
C37_LogAndFlagsAgree ==
    /\ \A id \in DOMAIN sessions : LogMatchesFlags(sessions[id])
    /\ \A i \in 1..Len(requests) : PayloadNamesAgree(asRecordPayload(requests[i].body))

\* a session of two covered checkpoints has ended and its payload was posted
C37_Witness ==
    /\ \E id \in DOMAIN sessions :
            /\ sessions[id].status = "completed"
            /\ Len(sessions[id].coverageOrder) = 2
    /\ \E i \in 1..Len(requests) :
            Len(asRecordPayload(requests[i].body).covered_checkpoints) = 2


\* ---------------------------------------------------------------------- C38
Recorded(session) ==
    <<session.entries, session.decisions, session.checkpoints, session.coverageOrder>>

StaysCompleted(id) ==
    sessions[id].status = "completed" => sessions'[id].status = "completed"

\* C38: a completed session never becomes active again, and no later call,
\* with or without a session id, changes its entries, decisions, covered flags
\* or coverage-order log.
C38_CompletedSessionIsFrozen ==
    [][\A id \in DOMAIN sessions \cap DOMAIN sessions' :
            /\ StaysCompleted(id)
            /\ sessions[id].status = "completed" =>
                    Recorded(sessions'[id]) = Recorded(sessions[id])]_vars

\* C39: in every reachable state of the store, reached by ingestions that
\* interleave and by payloads that name a checkpoint more than once, every row of
\* checkpoint_scores has position_samples = times_covered,
\* 0 <= times_led_to_decision <= times_covered and times_covered >= 1
ScoreRowIsConsistent(row) ==
    /\ row.position_samples = row.times_covered
    /\ 0 <= row.times_led_to_decision
    /\ row.times_led_to_decision <= row.times_covered
    /\ row.times_covered >= 1

C39_ScoreRowsAreConsistent ==
    \A k \in DOMAIN checkpoint_scores : ScoreRowIsConsistent(checkpoint_scores[k])

\* two payloads were served, and a row counts a name covered more than once, one
\* of the times with a decision
C39_Witness ==
    /\ Len(requests) = 2
    /\ \A i \in 1..2 : requests[i].status \in {200, 207}
    /\ \E k \in DOMAIN checkpoint_scores :
          /\ checkpoint_scores[k].times_covered >= 2
          /\ checkpoint_scores[k].times_led_to_decision >= 1

\* C40: for every session the ingestion service accepts, and with no other
\* writer, ending it through uploadDirectToSupabase and ending it through the
\* edge function (payload of uploadViaEdgeFunction, served by the handler) leave
\* the four tables in the same state; and a session the ingestion service
\* rejects is persisted by neither path
SeedTables ==
    [checkpoints |-> SeedCheckpoints, checkpoint_scores |-> SeedScores,
     interview_metadata |-> SeedMetadata, interview_patterns |-> SeedPatterns]

\* the only request so far was served, and it carried the payload of session id
\* as it is now, ended `seconds` after its start
EndedThroughEdge(id, seconds) ==
    /\ Len(requests) = 1
    /\ Quiet
    /\ sessions[id].status = "completed"
    /\ requests[1].body = stringify(payloadOf(sessions[id], seconds))

AcceptedSessionsEndAlike ==
    \A id \in DOMAIN sessions : \A seconds \in AllSeconds :
        EndedThroughEdge(id, seconds) /\ requests[1].status \in {200, 207}
            => Tables = uploadDirectToSupabase(sessions[id], seconds, SeedTables)

\* the edge function writes nothing for a payload it answers with 400 or 422
RejectedByTheServiceIsNotPersisted ==
    \A id \in DOMAIN sessions : \A seconds \in AllSeconds :
        EndedThroughEdge(id, seconds) /\ requests[1].status \in {400, 422}
            => Tables = SeedTables

\* session id was ended through the direct path, and the service would reject
\* its payload whatever the duration
EndedDirectly(id) ==
    /\ requests = <<>>
    /\ sessions[id].status = "completed"
    /\ sessions[id].uploads >= 1

ServiceWouldReject(session) ==
    \A seconds \in AllSeconds :
        isSpamOrEmpty(normalizePayload(payloadOf(session, seconds))) # NoValue

RejectedIsNotPersistedDirectly ==
    \A id \in DOMAIN sessions :
        EndedDirectly(id) /\ ServiceWouldReject(sessions[id]) => Tables = SeedTables

C40_BothPathsPersistTheSame ==
    /\ AcceptedSessionsEndAlike
    /\ RejectedByTheServiceIsNotPersisted
    /\ RejectedIsNotPersistedDirectly

====
